---- MODULE Spec2Model ----
(***************************************************************************)
(* Model of the telnet stream engine of clab_vm_startup                    *)
(* (helpers/telnet_client.py): the negotiation filter process_raw_data,    *)
(* the receiver thread, and the blocking matcher read_until / expect of    *)
(* TelnetClient.                                                           *)
(*                                                                         *)
(* Text is a sequence of code points (97 = "a", 98 = "b"); raw data is a   *)
(* sequence of byte values.  An item of a queue is a record: a text chunk  *)
(* or the END_OF_QUEUE sentinel.                                           *)
(***************************************************************************)
EXTENDS Integers, Sequences, FiniteSets, TLC

VARIABLES
    \* ---- TelnetClient, the matcher side (caller thread) ----
    receiver_queue,  \* self._receiver_queue: items put by the receiver, not yet read
    unconsumed,      \* self._unconsumed
    readable,        \* self._readable
    pc,              \* caller: "idle", "check" (after a yield without match), "get" (in Queue.get)
    op,              \* the running (or last) call: kind, target, patterns, timed, timeout
    data,            \* local data of __accumulate_stream
    offset,          \* local offset of read_until
    elapsed,         \* time.time() - start, in clock ticks
    get_deadline,    \* value of elapsed at which the running Queue.get gives up
    waited,          \* ticks spent inside Queue.get during the running call
    gets,            \* items taken from the queue during the running call
    outcome,         \* how the last call ended and what it returned
    entry,           \* unconsumed and readable as they were at call entry
    call_chunks,     \* the text chunks dequeued during the running call, in order
    returned_all,    \* concatenation of every text returned so far
    enqueued_all,    \* concatenation of every text chunk the receiver has put
    eoq_put,         \* the receiver has put END_OF_QUEUE on the matching queue
    nputs,           \* number of text chunks put
    ncalls,          \* number of calls made
    \* ---- process_raw_data, run on chunks chosen from a bounded set ----
    f_fed,           \* the raw chunks given to the filter so far, in order
    f_runs,          \* the result of the filter run on each of them
    \* ---- the socket and the receiver thread ----
    sock_open,       \* sock.fileno() != -1: the socket has not been closed locally
    peer_closed,     \* the peer has closed its side
    sock_in,         \* raw chunks sent by the peer and not yet received
    sock_out,        \* the replies the filter sent on the socket, in order
    rpc,             \* receiver: position in its loop, "done" or "crashed"
    rerr,            \* the exception that ended the receiver thread, if any
    raw_data,        \* local raw_data of receiver
    text,            \* local text of receiver
    output_queue,    \* every item the receiver has put on the matching queue
    logs_queue,      \* every item the receiver has put on the log queue
    received,        \* the non-empty chunks sock.recv has returned, in order
    zero_read,       \* sock.recv has returned b""
    npeer,           \* number of chunks the peer has sent
    \* ---- TelnetClient.open / close / write (caller thread) ----
    c_pc,            \* caller: "idle", or its position inside close()
    queues,          \* self._receiver_queue, _sender_queue, _logs_queue are set
    last_call,       \* the last call of open, close or write, and the error it raised
    warnings,        \* the workers close() has logged as not joined
    \* ---- the sender thread ----
    sender_queue,    \* the texts put by write() and not yet taken by the sender
    s_pc,            \* sender: position in its loop, "done" or "crashed"
    s_data,          \* local data of sender: the bytes still to send
    wire,            \* every byte sock.send has accepted, in order
    written,         \* every text write() has put, in order
    nwrites,         \* number of texts written
    \* ---- the log consumer thread ----
    l_pc,            \* log consumer: "get", or "done"
    l_read,          \* number of items it has taken from the log queue
    remainder,       \* local remainder of logs_consumer
    logged,          \* the messages given to logger.log, in order
    nlogputs,        \* number of texts put on the log queue from outside the receiver
    \* ---- IOSXRConsole (helpers/iosxr_console.py) on top of the TelnetClient ----
    connected,       \* self._connected
    hostname,        \* self._hostname: <<>> for None, <<h>> for the text h
    k_pc,            \* console caller: "idle", or the blocking read it is at
    k_ww,            \* arguments of the running wait_write and where it returns to
    k_call,          \* the method running or last run, and the error it raised
    k_entry,         \* connected and hostname as they were when the method was entered
    k_trace,         \* reads and writes of the running (or last) method, in order
    ncons,           \* number of console methods called
    nsays,           \* number of chunks the router has sent
    \* ---- VirtualRouter (vms/vr.py) ----
    boot_process,    \* self._boot_process is not None
    ports_started,   \* forwarded_port.started, of the port forwardings of the VM
    v_pc,            \* caller of start / stop: "idle", or the step it is about to run
    v_call,          \* the method running or last run, and the error it raised
    v_trace,         \* the steps the running (or last) method has run, in order
    nvm,             \* number of calls of start, stop and the connection getters
    \* ---- XRV (vms/xrv.py) and the connections of VirtualRouter ----
    xr_console,      \* self._xr_console: "none" for None, "open" for the connection
    g_pc,            \* get_*_connection: "idle", or "try" before an attempt
    g_call,          \* the connection getter running or last run, and how it ended
    x_pc,            \* post_start: "idle", or the wait it is at
    x_clock,         \* time.time(), in seconds since the VM object was made
    start_time,      \* start_time of the running (or last) post_start
    x_trace,         \* the waits of the running (or last) post_start, in order
    \* ---- VirtualRouter.boot_args and NetworkInterfaceController (host/nic.py) ----
    nics,            \* self.nics
    host,            \* the interfaces ethX of the host
    b_pc,            \* boot_args: "idle", or "nics" in the loop of _nics_boot_args
    nic_index,       \* nic_index of that loop
    pci_bridges,     \* the ids of the pci-bridge devices in qemu_args, in order
    nic_devices      \* the NIC devices in qemu_args, in order

mvars == <<receiver_queue, unconsumed, readable, pc, op, data, offset, elapsed,
           get_deadline, waited, gets, outcome, entry, call_chunks, returned_all,
           enqueued_all, eoq_put, nputs, ncalls>>

fvars == <<f_fed, f_runs>>

rvars == <<sock_open, peer_closed, sock_in, sock_out, rpc, rerr, raw_data, text,
           output_queue, logs_queue, received, zero_read, npeer>>

cvars == <<c_pc, queues, last_call, warnings>>

svars == <<sender_queue, s_pc, s_data, wire, written, nwrites>>

lvars == <<l_pc, l_read, remainder, logged, nlogputs>>

kvars == <<connected, hostname, k_pc, k_ww, k_call, k_entry, k_trace, ncons, nsays>>

xvars == <<xr_console, g_pc, g_call, x_pc, x_clock, start_time, x_trace>>

nvars == <<nics, host, b_pc, nic_index, pci_bridges, nic_devices>>

vvars == <<boot_process, ports_started, v_pc, v_call, v_trace, nvm, xvars, nvars>>

vars == <<mvars, fvars, rvars, cvars, svars, lvars, kvars, vvars>>

(***************************************************************************)
(* Bounds of the model.                                                    *)
(***************************************************************************)
MaxPuts == 3
MaxCalls == 2
MaxTime == 3
MaxRaw == 4
MaxPeer == 2
MaxWrites == 2
MaxLogPuts == 3
MaxConsoleCalls == 2
MaxSays == 4
MaxVmCalls == 5
MaxIndex == 4
MaxClock == 3000
MaxWaits == 3
MaxNics == 27

\* Text chunks the receiver may put (the empty text is what a chunk holding
\* only negotiation bytes decodes to).
TextChunks == {<<>>, <<97>>, <<98>>, <<98, 97>>}
\* Arguments of read_until.
Targets == {<<97, 98>>, <<98>>}
\* A pattern is a regular expression lit1|lit2|...: the sequence of its
\* literal alternatives.  Arguments of expect: the lists "a", "b" and
\* "ab", "b|ba".
PatternLists == { << << <<97>> >>, << <<98>> >> >>,
                  << << <<97, 98>> >>, << <<98>>, <<98, 97>> >> >> }
\* Timeouts of a timed call, in clock ticks.
Timeouts == {0, 2}

(***************************************************************************)
(* Queue items.                                                            *)
(***************************************************************************)
END_OF_QUEUE == [eoq |-> TRUE, text |-> <<>>]
TextItem(t) == [eoq |-> FALSE, text |-> t]

RECURSIVE Flatten(_)
\* The concatenation of a sequence of texts.
Flatten(ts) == IF ts = <<>> THEN <<>> ELSE Head(ts) \o Flatten(Tail(ts))

RECURSIVE QueueText(_)
\* The text chunks still waiting on a queue, concatenated.
QueueText(q) ==
    IF q = <<>> THEN <<>>
    ELSE (IF Head(q).eoq THEN <<>> ELSE Head(q).text) \o QueueText(Tail(q))

(***************************************************************************)
(* String operations of Python, on sequences; indices are 0-based as in    *)
(* the source.                                                             *)
(***************************************************************************)
SetMin(S) == CHOOSE x \in S : \A y \in S : x <= y

\* data[i:i+len(match)] == match
OccursAt(d, match, i) ==
    /\ i >= 0
    /\ i + Len(match) <= Len(d)
    /\ SubSeq(d, i + 1, i + Len(match)) = match

\* str.find(match, start): the lowest index >= start where match occurs, or -1
Find(d, match, start) ==
    LET S == {i \in start..Len(d) : OccursAt(d, match, i)}
    IN  IF S = {} THEN -1 ELSE SetMin(S)

\* data[:i]
Upto(d, i) == SubSeq(d, 1, i)

\* first alternative of a pattern, in order, that matches at position i
RECURSIVE AltAt(_, _, _)
AltAt(pattern, d, i) ==
    IF pattern = <<>> THEN <<>>
    ELSE IF OccursAt(d, Head(pattern), i) THEN <<Head(pattern)>>
    ELSE AltAt(Tail(pattern), d, i)

\* pattern.search(data): the leftmost match; at that position the first
\* alternative that matches.  [found, start, end]
Search(pattern, d) ==
    LET S == {i \in 0..Len(d) : AltAt(pattern, d, i) # <<>>}
    IN  IF S = {} THEN [found |-> FALSE, start |-> 0, end |-> 0]
        ELSE LET i == SetMin(S)
             IN  [found |-> TRUE, start |-> i, end |-> i + Len(AltAt(pattern, d, i)[1])]

(***************************************************************************)
(* process_raw_data: the telnet negotiation filter.                        *)
(***************************************************************************)
IAC == 255
DONT == 254
DO == 253
WONT == 252
WILL == 251
NULL == 0
SE == 240
SB == 250

\* The bytes the model feeds to the filter: the telnet commands, the two
\* ignored control bytes (0 and 17), a command the filter has no case for
\* (241) and a plain byte (65).
FilterBytes == {IAC, DONT, DO, WONT, WILL, SB, SE, NULL, 17, 241, 65}

\* bytes([IAC, WONT, option]) for DO/DONT, bytes([IAC, DONT, option]) for WILL/WONT
ReplyToWrong(cmd, option) ==
    IF cmd = DO THEN <<IAC, WILL, option>>
    ELSE IF cmd = DONT THEN <<IAC, WONT, option>>
    ELSE <<IAC, DONT, option>>
ReplyTo(cmd, option) ==
    IF cmd \in {DO, DONT} THEN <<IAC, WONT, option>> ELSE <<IAC, DONT, option>>

\* if next_byte in (NULL, 17): continue
IgnoredWrong(next_byte) == next_byte = NULL
Ignored(next_byte) == next_byte \in {NULL, 17}

\* The loop of process_raw_data from position i of raw (i bytes consumed),
\* with the sub_negotiation flag, the bytes yielded and the replies sent so
\* far.  next(raw_sequence) past the end inside a command raises
\* StopIteration in the generator, which reaches the caller of list() as a
\* RuntimeError: error is then TRUE and the yielded bytes are lost.
RECURSIVE FilterLoop(_, _, _, _, _)
FilterLoop(raw, i, sub, clean, replies) ==
    IF i >= Len(raw)
    THEN [clean |-> clean, replies |-> replies, sub |-> sub, error |-> FALSE]
    ELSE LET next_byte == raw[i + 1]
         IN  IF next_byte = IAC
             THEN IF i + 1 >= Len(raw)
                  THEN [clean |-> <<>>, replies |-> replies, sub |-> sub, error |-> TRUE]
                  ELSE LET cmd == raw[i + 2]
                       IN  IF cmd \in {DO, DONT, WILL, WONT}
                           THEN IF i + 2 >= Len(raw)
                                THEN [clean |-> <<>>, replies |-> replies,
                                      sub |-> sub, error |-> TRUE]
                                ELSE FilterLoop(raw, i + 3, sub, clean,
                                                Append(replies, ReplyTo(cmd, raw[i + 3])))
                           ELSE IF cmd = IAC
                           THEN FilterLoop(raw, i + 2, sub, Append(clean, IAC), replies)
                           ELSE IF cmd = SB
                           THEN FilterLoop(raw, i + 2, TRUE, clean, replies)
                           ELSE IF cmd = SE
                           THEN FilterLoop(raw, i + 2, FALSE, clean, replies)
                           ELSE FilterLoop(raw, i + 2, sub, clean, replies)
             ELSE IF Ignored(next_byte)
             THEN FilterLoop(raw, i + 1, sub, clean, replies)
             ELSE IF sub
             THEN FilterLoop(raw, i + 1, sub, clean, replies)
             ELSE FilterLoop(raw, i + 1, sub, Append(clean, next_byte), replies)

\* One call: sub_negotiation starts False.
process_raw_data(raw) == FilterLoop(raw, 0, FALSE, <<>>, <<>>)

\* All byte sequences of length 0..n over FilterBytes.
RawUpTo(n) == UNION {[1..k -> FilterBytes] : k \in 0..n}

\* The filter is run on one chunk, as the receiver runs it on the result of
\* one sock.recv.
RunFilter ==
    /\ f_fed = <<>>
    /\ \E raw \in RawUpTo(MaxRaw) :
        /\ raw # <<>>
        /\ f_fed' = Append(f_fed, raw)
        /\ f_runs' = Append(f_runs, process_raw_data(raw))
    /\ UNCHANGED <<mvars, rvars, cvars, svars, lvars, kvars, vvars>>

InitFilter ==
    /\ f_fed = <<>>
    /\ f_runs = <<>>

NextFilter == RunFilter

(***************************************************************************)
(* The socket, TelnetClient.close and the receiver thread.                 *)
(***************************************************************************)
\* Raw chunks the peer may send: plain text, text with an ignored NUL, a
\* complete negotiation (DO 1), a chunk that ends inside a command, an
\* escaped IAC (a byte 255 in the clean output, which is not valid UTF-8),
\* and the opening of a subnegotiation.
RawChunks == {<<97>>, <<98, NULL>>, <<IAC, DO, 1>>, <<IAC>>, <<IAC, IAC>>, <<IAC, SB>>}

\* data.decode(encoding) with the default utf-8, on the bytes of the model:
\* a byte below 128 is the code point of the same value; the bytes from 128
\* up that the model uses (240..255) never form a valid sequence.
DecodeFails(bytes) == \E i \in 1..Len(bytes) : bytes[i] >= 128
Decode(bytes) == bytes

\* The receiver thread dies on an exception it does not catch.
Crash(e) ==
    /\ rpc' = "crashed"
    /\ rerr' = e

\* while sock.fileno() != -1
R_Loop ==
    /\ rpc = "loop"
    /\ rpc' = (IF sock_open THEN "select" ELSE "end_out")
    /\ UNCHANGED <<sock_open, peer_closed, sock_in, sock_out, rerr, raw_data, text,
                   output_queue, logs_queue, received, zero_read, npeer>>
    /\ UNCHANGED <<mvars, fvars, cvars, svars, lvars, kvars, vvars>>

\* select.select([sock], [], [], 1) is entered: it asks the socket for its
\* file descriptor and raises ValueError when the socket is closed.
R_Select ==
    /\ rpc = "select"
    /\ IF sock_open THEN rpc' = "wait" /\ UNCHANGED rerr ELSE Crash("ValueError")
    /\ UNCHANGED <<sock_open, peer_closed, sock_in, sock_out, raw_data, text,
                   output_queue, logs_queue, received, zero_read, npeer>>
    /\ UNCHANGED <<mvars, fvars, cvars, svars, lvars, kvars, vvars>>

\* select returns no readable socket: nothing arrived within the second.
R_SelectTimeout ==
    /\ rpc = "wait"
    /\ (sock_in = <<>> /\ ~peer_closed) \/ ~sock_open
    /\ rpc' = "loop"
    /\ UNCHANGED <<sock_open, peer_closed, sock_in, sock_out, rerr, raw_data, text,
                   output_queue, logs_queue, received, zero_read, npeer>>
    /\ UNCHANGED <<mvars, fvars, cvars, svars, lvars, kvars, vvars>>

\* select returns the socket as readable: data or the peer's close arrived.
\* What select reports for a descriptor closed while it waits is
\* unspecified: it may also report the socket.
R_SelectReadable ==
    /\ rpc = "wait"
    /\ sock_in # <<>> \/ peer_closed \/ ~sock_open
    /\ rpc' = "recv"
    /\ UNCHANGED <<sock_open, peer_closed, sock_in, sock_out, rerr, raw_data, text,
                   output_queue, logs_queue, received, zero_read, npeer>>
    /\ UNCHANGED <<mvars, fvars, cvars, svars, lvars, kvars, vvars>>

\* where the receiver goes when sock.recv returns b"": break
OnEmptyReadWrong == "loop"
OnEmptyRead == "end_out"

\* raw_data = sock.recv(4096); if not raw_data: break
R_Recv ==
    /\ rpc = "recv"
    /\ IF ~sock_open
       THEN /\ Crash("OSError")
            /\ UNCHANGED <<sock_in, raw_data, received, zero_read>>
       ELSE IF sock_in # <<>>
       THEN /\ raw_data' = Head(sock_in)
            /\ sock_in' = Tail(sock_in)
            /\ received' = Append(received, Head(sock_in))
            /\ rpc' = "process"
            /\ UNCHANGED <<rerr, zero_read>>
       ELSE /\ peer_closed
            /\ raw_data' = <<>>
            /\ zero_read' = TRUE
            /\ rpc' = OnEmptyRead
            /\ UNCHANGED <<rerr, sock_in, received>>
    /\ UNCHANGED <<sock_open, peer_closed, sock_out, text, output_queue, logs_queue, npeer>>
    /\ UNCHANGED <<mvars, fvars, cvars, svars, lvars, kvars, vvars>>

\* data = bytes(list(process_raw_data(iter(raw_data), sock))), then
\* text = data.decode(encoding).  sendall raises OSError on a socket closed
\* locally, and may raise it once the peer has closed.
R_Process ==
    /\ rpc = "process"
    /\ LET res == process_raw_data(raw_data)
       IN  \/ /\ res.replies # <<>>
              /\ ~sock_open \/ peer_closed
              /\ Crash("OSError")
              /\ UNCHANGED <<sock_out, text>>
           \/ /\ res.replies = <<>> \/ sock_open
              /\ sock_out' = sock_out \o res.replies
              /\ IF res.error
                 THEN Crash("RuntimeError") /\ UNCHANGED text
                 ELSE IF DecodeFails(res.clean)
                 THEN Crash("UnicodeDecodeError") /\ UNCHANGED text
                 ELSE /\ text' = Decode(res.clean)
                      /\ rpc' = "put_out"
                      /\ UNCHANGED rerr
    /\ UNCHANGED <<sock_open, peer_closed, sock_in, raw_data, output_queue, logs_queue,
                   received, zero_read, npeer>>
    /\ UNCHANGED <<mvars, fvars, cvars, svars, lvars, kvars, vvars>>

\* output_queue.put(text)
R_PutOut ==
    /\ rpc = "put_out"
    /\ output_queue' = Append(output_queue, TextItem(text))
    /\ rpc' = "put_log"
    /\ UNCHANGED <<sock_open, peer_closed, sock_in, sock_out, rerr, raw_data, text,
                   logs_queue, received, zero_read, npeer>>
    /\ UNCHANGED <<mvars, fvars, cvars, svars, lvars, kvars, vvars>>

\* logs_queue.put(text)
R_PutLogWrong ==
    /\ rpc = "put_log"
    /\ logs_queue' = (IF text = <<>> THEN logs_queue ELSE Append(logs_queue, TextItem(text)))
    /\ rpc' = "loop"
    /\ UNCHANGED <<sock_open, peer_closed, sock_in, sock_out, rerr, raw_data, text,
                   output_queue, received, zero_read, npeer>>
    /\ UNCHANGED <<mvars, fvars, cvars, svars, lvars, kvars, vvars>>
R_PutLog ==
    /\ rpc = "put_log"
    /\ logs_queue' = Append(logs_queue, TextItem(text))
    /\ rpc' = "loop"
    /\ UNCHANGED <<sock_open, peer_closed, sock_in, sock_out, rerr, raw_data, text,
                   output_queue, received, zero_read, npeer>>
    /\ UNCHANGED <<mvars, fvars, cvars, svars, lvars, kvars, vvars>>

\* output_queue.put(END_OF_QUEUE)
R_EndOut ==
    /\ rpc = "end_out"
    /\ output_queue' = Append(output_queue, END_OF_QUEUE)
    /\ rpc' = "end_log"
    /\ UNCHANGED <<sock_open, peer_closed, sock_in, sock_out, rerr, raw_data, text,
                   logs_queue, received, zero_read, npeer>>
    /\ UNCHANGED <<mvars, fvars, cvars, svars, lvars, kvars, vvars>>

\* logs_queue.put(END_OF_QUEUE); the thread ends
R_EndLog ==
    /\ rpc = "end_log"
    /\ logs_queue' = Append(logs_queue, END_OF_QUEUE)
    /\ rpc' = "done"
    /\ UNCHANGED <<sock_open, peer_closed, sock_in, sock_out, rerr, raw_data, text,
                   output_queue, received, zero_read, npeer>>
    /\ UNCHANGED <<mvars, fvars, cvars, svars, lvars, kvars, vvars>>

\* TelnetClient.closed: self._socket is None
closed == ~sock_open

\* if self.closed: raise RuntimeError(...)
CloseRaises == closed

\* TelnetClient.close, up to the first join: on a closed connection it raises;
\* otherwise self._socket.close() and self._socket = None.
Close ==
    /\ c_pc = "idle"
    /\ IF CloseRaises
       THEN /\ last_call' = [op |-> "close", error |-> "RuntimeError"]
            /\ UNCHANGED <<sock_open, c_pc, warnings>>
       ELSE /\ sock_open' = FALSE
            /\ c_pc' = "join_receiver"
            /\ warnings' = {}
            /\ last_call' = [op |-> "close", error |-> "none"]
    /\ UNCHANGED queues
    /\ UNCHANGED <<peer_closed, sock_in, sock_out, rpc, rerr, raw_data, text,
                   output_queue, logs_queue, received, zero_read, npeer>>
    /\ UNCHANGED <<mvars, fvars, svars, lvars, kvars, vvars>>

\* The peer sends a chunk.
PeerSend ==
    /\ ~peer_closed
    /\ npeer < MaxPeer
    /\ \E c \in RawChunks : sock_in' = Append(sock_in, c)
    /\ npeer' = npeer + 1
    /\ UNCHANGED <<sock_open, peer_closed, sock_out, rpc, rerr, raw_data, text,
                   output_queue, logs_queue, received, zero_read>>
    /\ UNCHANGED <<mvars, fvars, cvars, svars, lvars, kvars, vvars>>

\* The peer closes the connection.
PeerClose ==
    /\ ~peer_closed
    /\ peer_closed' = TRUE
    /\ UNCHANGED <<sock_open, sock_in, sock_out, rpc, rerr, raw_data, text,
                   output_queue, logs_queue, received, zero_read, npeer>>
    /\ UNCHANGED <<mvars, fvars, cvars, svars, lvars, kvars, vvars>>

\* After open(): the socket is connected and the receiver thread starts.
InitReceiver ==
    /\ sock_open = TRUE
    /\ peer_closed = FALSE
    /\ sock_in = <<>>
    /\ sock_out = <<>>
    /\ rpc = "loop"
    /\ rerr = "none"
    /\ raw_data = <<>>
    /\ text = <<>>
    /\ output_queue = <<>>
    /\ logs_queue = <<>>
    /\ received = <<>>
    /\ zero_read = FALSE
    /\ npeer = 0

NextReceiver ==
    \/ R_Loop
    \/ R_Select
    \/ R_SelectTimeout
    \/ R_SelectReadable
    \/ R_Recv
    \/ R_Process
    \/ R_PutOut
    \/ R_PutLog
    \/ R_EndOut
    \/ R_EndLog
    \/ Close
    \/ PeerSend
    \/ PeerClose

(***************************************************************************)
(* TelnetClient.read_until, expect and __accumulate_stream.                *)
(***************************************************************************)
NoOp == [kind |-> "none", target |-> <<>>, patterns |-> <<>>, timed |-> FALSE, timeout |-> 0]
NoOutcome == [kind |-> "none", text |-> <<>>, rest |-> <<>>, pat |-> 0]

\* data[matching_index:] / data[end:], the new unconsumed remainder
UnreadWrong(d, end) == SubSeq(d, end + 2, Len(d))
Unread(d, end) == SubSeq(d, end + 1, Len(d))

\* offset = max(len(data) - len(match), 0)
SearchOffsetWrong(d, match) == Len(d)
SearchOffset(d, match) ==
    IF Len(d) - Len(match) > 0 THEN Len(d) - Len(match) ELSE 0

\* self._unconsumed = data, before every yield
StoreUnconsumedWrong(old, d) == old
StoreUnconsumed(old, d) == d

\* time_remaining = timeout - (time.time() - start)
TimeRemainingWrong(timeout, el) == timeout
TimeRemaining(timeout, el) == timeout - el

\* the loop over expressions: index of the first pattern, in list order,
\* whose search succeeds on data; 0 when none does
ExpectFirstWrong(patterns, d) ==
    LET M == {k \in 1..Len(patterns) : Search(patterns[k], d).found}
    IN  IF M = {} THEN 0
        ELSE CHOOSE k \in M : \A j \in M :
                \/ Search(patterns[k], d).start < Search(patterns[j], d).start
                \/ Search(patterns[k], d).start = Search(patterns[j], d).start /\ k <= j
ExpectFirst(patterns, d) ==
    LET M == {k \in 1..Len(patterns) : Search(patterns[k], d).found}
    IN  IF M = {} THEN 0 ELSE SetMin(M)

\* The search one call makes on a yielded data: [found, end, pat]
Match(o, d, off) ==
    IF o.kind = "read_until"
    THEN LET i == Find(d, o.target, off)
         IN  [found |-> i # -1, end |-> i + Len(o.target), pat |-> 0]
    ELSE LET k == ExpectFirst(o.patterns, d)
         IN  IF k = 0 THEN [found |-> FALSE, end |-> 0, pat |-> 0]
             ELSE [found |-> TRUE, end |-> Search(o.patterns[k], d).end, pat |-> k]

\* The call ends (return or raise): the locals of the generator are gone.
EndCall(kind, ret, rest, k) ==
    /\ pc' = "idle"
    /\ outcome' = [kind |-> kind, text |-> ret, rest |-> rest, pat |-> k]
    /\ returned_all' = returned_all \o ret
    /\ data' = <<>>
    /\ offset' = 0
    /\ elapsed' = 0
    /\ get_deadline' = 0
    /\ waited' = 0

\* __accumulate_stream stores and yields d; the caller's loop body searches it.
Yield(o, d, off) ==
    LET m == Match(o, d, off)
    IN  IF m.found
        THEN /\ unconsumed' = Unread(d, m.end)
             /\ EndCall("match", Upto(d, m.end), Unread(d, m.end), m.pat)
        ELSE /\ unconsumed' = StoreUnconsumed(unconsumed, d)
             /\ pc' = "check"
             /\ data' = d
             /\ offset' = (IF o.kind = "read_until" THEN SearchOffset(d, o.target) ELSE 0)
             /\ UNCHANGED <<outcome, returned_all, elapsed, get_deadline, waited>>

\* __accumulate_stream yields the unconsumed data to the caller's search
\* before its first deadline check and its first look at self._readable
YieldsFirstWrong(o) == readable /\ ~(o.timed /\ o.timeout <= 0)
YieldsFirst(o) == TRUE

\* Entry of read_until / expect up to the first yield and its search.
Call(o) ==
    /\ pc = "idle"
    /\ ncalls < MaxCalls
    /\ ncalls' = ncalls + 1
    /\ op' = o
    /\ entry' = [unconsumed |-> unconsumed, readable |-> readable]
    /\ call_chunks' = <<>>
    /\ gets' = 0
    /\ LET m == Match(o, unconsumed, 0)
       IN  IF m.found /\ YieldsFirst(o)
           THEN /\ unconsumed' = Unread(unconsumed, m.end)
                /\ EndCall("match", Upto(unconsumed, m.end), Unread(unconsumed, m.end), m.pat)
           ELSE /\ unconsumed' = StoreUnconsumed(unconsumed, unconsumed)
                /\ pc' = "check"
                /\ data' = unconsumed
                /\ offset' = (IF o.kind = "read_until"
                              THEN SearchOffset(unconsumed, o.target) ELSE 0)
                /\ outcome' = NoOutcome
                /\ elapsed' = 0
                /\ waited' = 0
                /\ get_deadline' = 0
                /\ UNCHANGED returned_all
    /\ UNCHANGED <<receiver_queue, readable, enqueued_all, eoq_put, nputs>>
    /\ UNCHANGED <<fvars, rvars, cvars, svars, lvars, kvars, vvars>>

read_until ==
    \E t \in Targets, timed \in BOOLEAN, to \in Timeouts :
        /\ timed \/ to = 0
        /\ Call([kind |-> "read_until", target |-> t, patterns |-> <<>>,
                 timed |-> timed, timeout |-> to])

expect ==
    \E ps \in PatternLists, timed \in BOOLEAN, to \in Timeouts :
        /\ timed \/ to = 0
        /\ Call([kind |-> "expect", target |-> <<>>, patterns |-> ps,
                 timed |-> timed, timeout |-> to])

\* After a yield without match: the deadline check, then the readable check.
CheckTime ==
    /\ pc = "check"
    /\ IF op.timed /\ TimeRemaining(op.timeout, elapsed) <= 0
       THEN \* raise TimeoutError
            /\ EndCall("timeout", <<>>, <<>>, 0)
            /\ UNCHANGED readable
       ELSE IF ~readable
       THEN \* next_data = END_OF_QUEUE: the loop ends, raise EOFError
            /\ readable' = FALSE
            /\ EndCall("eof", <<>>, <<>>, 0)
       ELSE /\ pc' = "get"
            /\ get_deadline' = elapsed + (IF op.timed THEN TimeRemaining(op.timeout, elapsed) ELSE 0)
            /\ UNCHANGED <<readable, outcome, returned_all, data, offset, elapsed, waited>>
    /\ UNCHANGED <<receiver_queue, unconsumed, op, gets, entry, call_chunks,
                   enqueued_all, eoq_put, nputs, ncalls>>
    /\ UNCHANGED <<fvars, rvars, cvars, svars, lvars, kvars, vvars>>

\* self._receiver_queue.get(timeout=time_remaining) returns an item.
GetItem ==
    /\ pc = "get"
    /\ receiver_queue # <<>>
    /\ receiver_queue' = Tail(receiver_queue)
    /\ gets' = gets + 1
    /\ LET item == Head(receiver_queue)
       IN  IF item.eoq
           THEN /\ readable' = FALSE
                /\ EndCall("eof", <<>>, <<>>, 0)
                /\ UNCHANGED <<unconsumed, call_chunks>>
           ELSE /\ call_chunks' = Append(call_chunks, item.text)
                /\ Yield(op, data \o item.text, offset)
                /\ UNCHANGED readable
    /\ UNCHANGED <<op, entry, enqueued_all, eoq_put, nputs, ncalls>>
    /\ UNCHANGED <<fvars, rvars, cvars, svars, lvars, kvars, vvars>>

\* Queue.get raises Empty: the time it was given has passed with no item.
GetEmpty ==
    /\ pc = "get"
    /\ op.timed
    /\ receiver_queue = <<>>
    /\ elapsed >= get_deadline
    /\ EndCall("timeout", <<>>, <<>>, 0)
    /\ UNCHANGED <<receiver_queue, unconsumed, readable, op, gets, entry, call_chunks,
                   enqueued_all, eoq_put, nputs, ncalls>>
    /\ UNCHANGED <<fvars, rvars, cvars, svars, lvars, kvars, vvars>>

\* The wall clock advances during a timed call; a Queue.get does not outlive
\* the timeout it was given.
Tick ==
    /\ pc # "idle"
    /\ op.timed
    /\ elapsed < MaxTime
    /\ pc = "get" => elapsed < get_deadline
    /\ elapsed' = elapsed + 1
    /\ waited' = (IF pc = "get" THEN waited + 1 ELSE waited)
    /\ UNCHANGED <<receiver_queue, unconsumed, readable, pc, op, data, offset,
                   get_deadline, gets, outcome, entry, call_chunks, returned_all,
                   enqueued_all, eoq_put, nputs, ncalls>>
    /\ UNCHANGED <<fvars, rvars, cvars, svars, lvars, kvars, vvars>>

\* The receiver thread, seen from the matching queue: output_queue.put(text)
PutText ==
    /\ ~eoq_put
    /\ nputs < MaxPuts
    /\ \E t \in TextChunks :
        /\ receiver_queue' = Append(receiver_queue, TextItem(t))
        /\ enqueued_all' = enqueued_all \o t
    /\ nputs' = nputs + 1
    /\ UNCHANGED <<unconsumed, readable, pc, op, data, offset, elapsed, get_deadline,
                   waited, gets, outcome, entry, call_chunks, returned_all, eoq_put, ncalls>>
    /\ UNCHANGED <<fvars, rvars, cvars, svars, lvars, kvars, vvars>>

\* output_queue.put(END_OF_QUEUE)
PutEnd ==
    /\ ~eoq_put
    /\ eoq_put' = TRUE
    /\ receiver_queue' = Append(receiver_queue, END_OF_QUEUE)
    /\ UNCHANGED <<unconsumed, readable, pc, op, data, offset, elapsed, get_deadline,
                   waited, gets, outcome, entry, call_chunks, returned_all, enqueued_all,
                   nputs, ncalls>>
    /\ UNCHANGED <<fvars, rvars, cvars, svars, lvars, kvars, vvars>>

\* self._unconsumed = "", at the end of read_all
ClearedWrong(d) == d
Cleared(d) == <<>>

\* read_all returns d: self._readable = False; self._unconsumed = ""
ReturnAll(d) ==
    /\ readable' = FALSE
    /\ unconsumed' = Cleared(d)
    /\ EndCall("all", d, <<>>, 0)

\* Entry of read_all: data is the unconsumed buffer; on an unreadable stream
\* the loop ends at once, otherwise it goes to its Queue.get, which has no
\* timeout.
read_all ==
    /\ pc = "idle"
    /\ ncalls < MaxCalls
    /\ ncalls' = ncalls + 1
    /\ op' = [kind |-> "read_all", target |-> <<>>, patterns |-> <<>>, timed |-> FALSE, timeout |-> 0]
    /\ entry' = [unconsumed |-> unconsumed, readable |-> readable]
    /\ call_chunks' = <<>>
    /\ gets' = 0
    /\ IF ~readable
       THEN ReturnAll(unconsumed)
       ELSE /\ pc' = "get_all"
            /\ data' = unconsumed
            /\ outcome' = NoOutcome
            /\ UNCHANGED <<unconsumed, readable, returned_all, offset, elapsed, get_deadline, waited>>
    /\ UNCHANGED <<receiver_queue, enqueued_all, eoq_put, nputs>>
    /\ UNCHANGED <<fvars, rvars, cvars, svars, lvars, kvars, vvars>>

\* next_data = self._receiver_queue.get() in read_all: the sentinel ends the
\* loop, a text is added to data
ReadAllGet ==
    /\ pc = "get_all"
    /\ receiver_queue # <<>>
    /\ receiver_queue' = Tail(receiver_queue)
    /\ gets' = gets + 1
    /\ LET item == Head(receiver_queue)
       IN  IF item.eoq
           THEN ReturnAll(data) /\ UNCHANGED call_chunks
           ELSE /\ data' = data \o item.text
                /\ call_chunks' = Append(call_chunks, item.text)
                /\ UNCHANGED <<unconsumed, readable, pc, outcome, returned_all, offset,
                               elapsed, get_deadline, waited>>
    /\ UNCHANGED <<op, entry, enqueued_all, eoq_put, nputs, ncalls>>
    /\ UNCHANGED <<fvars, rvars, cvars, svars, lvars, kvars, vvars>>

\* a caller that uses read_until and read_all
NextReadAll ==
    \/ read_until
    \/ CheckTime
    \/ GetItem
    \/ GetEmpty
    \/ Tick
    \/ PutText
    \/ PutEnd
    \/ read_all
    \/ ReadAllGet

\* TelnetClient after open(): empty buffer, readable, empty queue.
InitMatcher ==
    /\ receiver_queue = <<>>
    /\ unconsumed = <<>>
    /\ readable = TRUE
    /\ pc = "idle"
    /\ op = NoOp
    /\ data = <<>>
    /\ offset = 0
    /\ elapsed = 0
    /\ get_deadline = 0
    /\ waited = 0
    /\ gets = 0
    /\ outcome = NoOutcome
    /\ entry = [unconsumed |-> <<>>, readable |-> TRUE]
    /\ call_chunks = <<>>
    /\ returned_all = <<>>
    /\ enqueued_all = <<>>
    /\ eoq_put = FALSE
    /\ nputs = 0
    /\ ncalls = 0

NextMatcher ==
    \/ read_until
    \/ expect
    \/ CheckTime
    \/ GetItem
    \/ GetEmpty
    \/ Tick
    \/ PutText
    \/ PutEnd

(***************************************************************************)
(* The sender thread and TelnetClient.write.                               *)
(***************************************************************************)
\* Texts the caller may write: "a", "a\r", the empty text and "é" (U+00E9,
\* two bytes in utf-8).
WriteTexts == {<<97>>, <<97, 13>>, <<>>, <<233>>}

\* data.encode(encoding) with the default utf-8, on the code points of the
\* model (all below U+0800): one byte below 128, two bytes from 128 up.
RECURSIVE Encode(_)
Encode(t) ==
    IF t = <<>> THEN <<>>
    ELSE (IF Head(t) < 128 THEN <<Head(t)>>
          ELSE <<192 + (Head(t) \div 64), 128 + (Head(t) % 64)>>) \o Encode(Tail(t))

\* What sock.send may return for these bytes: 0 for no bytes, otherwise the
\* number of bytes the kernel accepted, at least one.
SendSizes(d) == IF d = <<>> THEN {0} ELSE 1..Len(d)

\* data = data[sent:]
UnsentWrong(d, sent) == d
Unsent(d, sent) == SubSeq(d, sent + 1, Len(d))

\* while sock.fileno() != -1
S_Loop ==
    /\ s_pc = "loop"
    /\ s_pc' = (IF sock_open THEN "get" ELSE "done")
    /\ UNCHANGED <<sender_queue, s_data, wire, written, nwrites>>
    /\ UNCHANGED <<mvars, fvars, rvars, cvars, lvars, kvars, vvars>>

\* data = input_queue.get(block=True, timeout=1) returns a text, which is
\* encoded
S_Get ==
    /\ s_pc = "get"
    /\ sender_queue # <<>>
    /\ s_data' = Encode(Head(sender_queue))
    /\ sender_queue' = Tail(sender_queue)
    /\ s_pc' = "send"
    /\ UNCHANGED <<wire, written, nwrites>>
    /\ UNCHANGED <<mvars, fvars, rvars, cvars, lvars, kvars, vvars>>

\* the get raises Empty after its second: continue
S_GetTimeout ==
    /\ s_pc = "get"
    /\ sender_queue = <<>>
    /\ s_pc' = "loop"
    /\ UNCHANGED <<sender_queue, s_data, wire, written, nwrites>>
    /\ UNCHANGED <<mvars, fvars, rvars, cvars, lvars, kvars, vvars>>

\* sent = sock.send(data), at line 179 and again at line 182 after
\* data = data[sent:], until it returns 0.  send raises OSError on a socket
\* closed locally, and may raise it once the peer has closed; the sender
\* catches nothing.
S_Send ==
    /\ s_pc = "send"
    /\ \/ /\ ~sock_open \/ peer_closed
          /\ s_pc' = "crashed"
          /\ UNCHANGED <<s_data, wire>>
       \/ /\ sock_open
          /\ \E sent \in SendSizes(s_data) :
                /\ wire' = wire \o SubSeq(s_data, 1, sent)
                /\ IF sent = 0
                   THEN s_pc' = "loop" /\ UNCHANGED s_data
                   ELSE s_pc' = "send" /\ s_data' = Unsent(s_data, sent)
    /\ UNCHANGED <<sender_queue, written, nwrites>>
    /\ UNCHANGED <<mvars, fvars, rvars, cvars, lvars, kvars, vvars>>

\* TelnetClient.write: self._sender_queue.put(s); the attribute is None once
\* close() has released the queues.
write ==
    /\ c_pc = "idle"
    /\ nwrites < MaxWrites
    /\ nwrites' = nwrites + 1
    /\ \E t \in WriteTexts :
        IF queues
        THEN /\ sender_queue' = Append(sender_queue, t)
             /\ written' = Append(written, t)
             /\ last_call' = [op |-> "write", error |-> "none"]
        ELSE /\ last_call' = [op |-> "write", error |-> "AttributeError"]
             /\ UNCHANGED <<sender_queue, written>>
    /\ UNCHANGED <<s_pc, s_data, wire>>
    /\ UNCHANGED <<c_pc, queues, warnings>>
    /\ UNCHANGED <<mvars, fvars, rvars, lvars, kvars, vvars>>

\* After open(): the sender thread starts with an empty queue.
InitSender ==
    /\ sender_queue = <<>>
    /\ s_pc = "loop"
    /\ s_data = <<>>
    /\ wire = <<>>
    /\ written = <<>>
    /\ nwrites = 0

(***************************************************************************)
(* The log consumer thread.                                                *)
(***************************************************************************)
ESC == 27
\* TelnetClient's default newline, "\n"
newline == <<10>>

\* The characters \s of a regular expression and str.strip() take for
\* whitespace, among the code points below 256.
Whitespace == {9, 10, 11, 12, 13, 28, 29, 30, 31, 32, 133, 160}

\* Text chunks put on the log queue: "a", "\n", " a\n", "a\nb", and "\033[J\n"
\* (an escape sequence that is not a colour, ended by the newline).
LogChunks == {<<97>>, <<10>>, <<32, 97, 10>>, <<97, 10, 98>>, <<ESC, 91, 74, 10>>}

RECURSIVE SkipDigits(_, _)
\* the first position from i (1-based) that holds no digit
SkipDigits(t, i) ==
    IF i <= Len(t) /\ t[i] \in 48..57 THEN SkipDigits(t, i + 1) ELSE i

\* the lookahead \d*m at position i: a colour sequence
IsColour(t, i) == LET j == SkipDigits(t, i) IN j <= Len(t) /\ t[j] = 109

\* the first position from i that holds whitespace, 0 when there is none
NextSpace(t, i) ==
    LET S == {k \in i..Len(t) : t[k] \in Whitespace}
    IN  IF S = {} THEN 0 ELSE SetMin(S)

\* ansi_re.sub("", text) for ansi_re = \033\[(?!\d*m)[^\s]*(\s|\n|\r), from
\* position i: every ESC [ that does not start a colour sequence is removed
\* with everything up to and including the next whitespace; without a
\* following whitespace there is no match.
RECURSIVE AnsiSub(_, _)
AnsiSub(t, i) ==
    IF i > Len(t) THEN <<>>
    ELSE IF /\ t[i] = ESC
            /\ i + 1 <= Len(t)
            /\ t[i + 1] = 91
            /\ ~IsColour(t, i + 2)
            /\ NextSpace(t, i + 2) # 0
    THEN AnsiSub(t, NextSpace(t, i + 2) + 1)
    ELSE <<t[i]>> \o AnsiSub(t, i + 1)

\* text.split(newline): the pieces between the occurrences of newline, the
\* last being what follows the last occurrence (never an empty list)
RECURSIVE Split(_, _)
Split(t, sep) ==
    LET i == Find(t, sep, 0)
    IN  IF i = -1 THEN <<t>>
        ELSE <<Upto(t, i)>> \o Split(SubSeq(t, i + Len(sep) + 1, Len(t)), sep)

\* str.strip()
RECURSIVE Strip(_)
Strip(t) ==
    IF t = <<>> THEN <<>>
    ELSE IF t[1] \in Whitespace THEN Strip(Tail(t))
    ELSE IF t[Len(t)] \in Whitespace THEN Strip(SubSeq(t, 1, Len(t) - 1))
    ELSE t

\* [line.strip() for line in lines]
StripAll(lines) == [k \in 1..Len(lines) |-> Strip(lines[k])]

\* remainder = lines[-1]
NewRemainderWrong(lines) == <<>>
NewRemainder(lines) == lines[Len(lines)]

\* One turn of the loop of logs_consumer: logs_queue.get(block=True) returns
\* the next item.  On a text the complete lines of remainder + data are logged
\* and the last piece is kept; on END_OF_QUEUE the loop is left and
\* remainder.strip() is logged (line 153), and the thread ends.
L_Get ==
    /\ l_pc = "get"
    /\ l_read < Len(logs_queue)
    /\ l_read' = l_read + 1
    /\ LET item == logs_queue[l_read + 1]
       IN  IF item.eoq
           THEN /\ logged' = Append(logged, Strip(remainder))
                /\ l_pc' = "done"
                /\ UNCHANGED remainder
           ELSE LET lines == Split(AnsiSub(remainder \o item.text, 1), newline)
                IN  /\ remainder' = NewRemainder(lines)
                    /\ logged' = logged \o StripAll(SubSeq(lines, 1, Len(lines) - 1))
                    /\ UNCHANGED l_pc
    /\ UNCHANGED nlogputs
    /\ UNCHANGED <<mvars, fvars, rvars, cvars, svars, kvars, vvars>>

\* A text is put on the log queue (by the receiver, line 221).
LogPut ==
    /\ nlogputs < MaxLogPuts
    /\ \A i \in 1..Len(logs_queue) : ~logs_queue[i].eoq
    /\ \E c \in LogChunks : logs_queue' = Append(logs_queue, TextItem(c))
    /\ nlogputs' = nlogputs + 1
    /\ UNCHANGED <<sock_open, peer_closed, sock_in, sock_out, rpc, rerr, raw_data, text,
                   output_queue, received, zero_read, npeer>>
    /\ UNCHANGED <<l_pc, l_read, remainder, logged>>
    /\ UNCHANGED <<mvars, fvars, cvars, svars, kvars, vvars>>

\* END_OF_QUEUE is put on the log queue (by the receiver, line 226).
LogPutEnd ==
    /\ \A i \in 1..Len(logs_queue) : ~logs_queue[i].eoq
    /\ logs_queue' = Append(logs_queue, END_OF_QUEUE)
    /\ UNCHANGED <<sock_open, peer_closed, sock_in, sock_out, rpc, rerr, raw_data, text,
                   output_queue, received, zero_read, npeer>>
    /\ UNCHANGED lvars
    /\ UNCHANGED <<mvars, fvars, cvars, svars, kvars, vvars>>

\* After open(): the log consumer thread starts with an empty remainder.
InitLogs ==
    /\ l_pc = "get"
    /\ l_read = 0
    /\ remainder = <<>>
    /\ logged = <<>>
    /\ nlogputs = 0

NextLogs ==
    \/ L_Get
    \/ LogPut
    \/ LogPutEnd

(***************************************************************************)
(* TelnetClient.open and the rest of TelnetClient.close.                   *)
(***************************************************************************)
ReceiverAlive == rpc \notin {"done", "crashed"}
SenderAlive == s_pc \notin {"done", "crashed"}
LogsAlive == l_pc # "done"

\* thread.join(5) returns when the thread has ended, and after five seconds
\* when it has not.
JoinReturnsWrong(alive) == ~alive
JoinReturns(alive) == TRUE

\* thread.join(5), then a warning if thread.is_alive()
Join(at, worker, alive, next) ==
    /\ c_pc = at
    /\ JoinReturns(alive)
    /\ warnings' = (IF alive THEN warnings \cup {worker} ELSE warnings)
    /\ c_pc' = next
    /\ UNCHANGED <<queues, last_call>>
    /\ UNCHANGED <<mvars, fvars, rvars, svars, lvars, kvars, vvars>>

JoinReceiver == Join("join_receiver", "receiver", ReceiverAlive, "join_sender")
JoinSender == Join("join_sender", "sender", SenderAlive, "join_logs")
JoinLogs == Join("join_logs", "logs", LogsAlive, "release")

\* the three queues are deleted and set to None; close() returns
Release ==
    /\ c_pc = "release"
    /\ queues' = FALSE
    /\ c_pc' = "idle"
    /\ UNCHANGED <<last_call, warnings>>
    /\ UNCHANGED <<mvars, fvars, rvars, svars, lvars, kvars, vvars>>

\* if not self.closed: raise RuntimeError(...)
OpenRaisesWrong == FALSE
OpenRaises == ~closed

\* TelnetClient.open.  On an open connection it raises.  Otherwise
\* socket.create_connection may raise OSError, before anything is assigned;
\* when it succeeds the three queues are created anew, the three threads are
\* started on the new socket and queues, and self._readable = True.  Threads
\* of an earlier connection that are still alive keep the old socket and
\* queues and are out of reach.  self._unconsumed is not assigned.
open ==
    /\ c_pc = "idle"
    /\ \/ /\ OpenRaises
          /\ last_call' = [op |-> "open", error |-> "RuntimeError"]
          /\ UNCHANGED <<readable, receiver_queue, eoq_put, rvars, c_pc, queues, warnings, svars, lvars>>
       \/ /\ ~OpenRaises
          /\ last_call' = [op |-> "open", error |-> "OSError"]
          /\ UNCHANGED <<readable, receiver_queue, eoq_put, rvars, c_pc, queues, warnings, svars, lvars>>
       \/ /\ ~OpenRaises
          /\ last_call' = [op |-> "open", error |-> "none"]
          /\ sock_open' = TRUE
          /\ peer_closed' = FALSE
          /\ sock_in' = <<>>
          /\ sock_out' = <<>>
          /\ received' = <<>>
          /\ zero_read' = FALSE
          /\ npeer' = 0
          /\ logs_queue' = <<>>
          /\ l_pc' = "get"
          /\ l_read' = 0
          /\ remainder' = <<>>
          /\ logged' = <<>>
          /\ nlogputs' = 0
          /\ output_queue' = <<>>
          /\ rpc' = "loop"
          /\ rerr' = "none"
          /\ raw_data' = <<>>
          /\ text' = <<>>
          /\ sender_queue' = <<>>
          /\ s_pc' = "loop"
          /\ s_data' = <<>>
          /\ wire' = <<>>
          /\ written' = <<>>
          /\ nwrites' = 0
          /\ queues' = TRUE
          /\ warnings' = {}
          /\ readable' = TRUE
          /\ receiver_queue' = <<>>
          /\ eoq_put' = FALSE
          /\ UNCHANGED c_pc
    /\ UNCHANGED <<unconsumed, pc, op, data, offset, elapsed, get_deadline,
                   waited, gets, outcome, entry, call_chunks, returned_all, enqueued_all,
                   nputs, ncalls>>
    /\ UNCHANGED <<fvars, kvars, vvars>>

\* After open(): the caller is between calls and the queues are set.
InitCaller ==
    /\ c_pc = "idle"
    /\ queues = TRUE
    /\ last_call = [op |-> "open", error |-> "none"]
    /\ warnings = {}

\* The connection: the caller opening and closing it, the peer, the receiver,
\* the log consumer fed by the receiver, and the sender with nothing to send.
NextConnection ==
    \/ NextReceiver
    \/ JoinReceiver
    \/ JoinSender
    \/ JoinLogs
    \/ Release
    \/ open
    \/ S_Loop
    \/ S_GetTimeout
    \/ L_Get

\* One connection from open() on: the receiver, the sender with nothing to
\* send, the log consumer, the peer, and a caller that may call close().
ReceiverStep ==
    \/ R_Loop
    \/ R_Select
    \/ R_SelectTimeout
    \/ R_SelectReadable
    \/ R_Recv
    \/ R_Process
    \/ R_PutOut
    \/ R_PutLog
    \/ R_EndOut
    \/ R_EndLog

SenderStep == S_Loop \/ S_GetTimeout

\* what remains of close() after the socket is closed
CloseStep == JoinReceiver \/ JoinSender \/ JoinLogs \/ Release

NextWorkers ==
    \/ ReceiverStep
    \/ SenderStep
    \/ L_Get
    \/ Close
    \/ CloseStep
    \/ PeerSend
    \/ PeerClose

\* The sender, the caller writing and closing, and the peer closing.
NextSender ==
    \/ write
    \/ S_Loop
    \/ S_Get
    \/ S_GetTimeout
    \/ S_Send
    \/ Close
    \/ JoinReceiver
    \/ JoinSender
    \/ JoinLogs
    \/ Release
    \/ PeerClose

\* A caller that reads with read_until("b", timeout=2), closes the connection
\* and opens it again, one call at a time and reading only while the
\* connection is open; the receiver puts on the matching queue of the open
\* connection.
NextReopen ==
    \/ /\ c_pc = "idle" /\ queues /\ ~closed
       /\ Call([kind |-> "read_until", target |-> <<98>>, patterns |-> <<>>,
                timed |-> TRUE, timeout |-> 2])
    \/ CheckTime
    \/ GetItem
    \/ GetEmpty
    \/ Tick
    \/ (~closed /\ PutText)
    \/ (~closed /\ PutEnd)
    \/ (pc = "idle" /\ Close)
    \/ JoinReceiver
    \/ JoinSender
    \/ JoinLogs
    \/ Release
    \/ (pc = "idle" /\ open)

(***************************************************************************)
(* IOSXRConsole (helpers/iosxr_console.py): the console session driving a  *)
(* TelnetClient.  A call of read_until or expect is one step here: it      *)
(* takes from the matching queue what __accumulate_stream would take and   *)
(* ends as that generator and the caller's search end.                     *)
(***************************************************************************)
\* "\r"
CR == <<13>>
\* "Username:"
username_prompt == [kind |-> "literal", text |-> <<85, 115, 101, 114, 110, 97, 109, 101, 58>>]
\* "Password:"
password_prompt == <<80, 97, 115, 115, 119, 111, 114, 100, 58>>
\* "% User Authentication failed"
auth_failed == [kind |-> "literal", text |-> <<37, 32, 85, 115, 101, 114, 32, 65, 117, 116, 104, 101, 110, 116, 105, 99, 97, 116, 105, 111, 110, 32, 102, 97, 105, 108, 101, 100>>]
\* "How many bits in the modulus"
new_key == [kind |-> "literal", text |-> <<72, 111, 119, 32, 109, 97, 110, 121, 32, 98, 105, 116, 115, 32, 105, 110, 32, 116, 104, 101, 32, 109, 111, 100, 117, 108, 117, 115>>]
\* "Do you really want to replace them"
key_exists == [kind |-> "literal", text |-> <<68, 111, 32, 121, 111, 117, 32, 114, 101, 97, 108, 108, 121, 32, 119, 97, 110, 116, 32, 116, 111, 32, 114, 101, 112, 108, 97, 99, 101, 32, 116, 104, 101, 109>>]
\* "terminal length 0", "crypto key generate rsa", "exit", "2048", "no"
terminal_length == <<116, 101, 114, 109, 105, 110, 97, 108, 32, 108, 101, 110, 103, 116, 104, 32, 48>>
crypto_key == <<99, 114, 121, 112, 116, 111, 32, 107, 101, 121, 32, 103, 101, 110, 101, 114, 97, 116, 101, 32, 114, 115, 97>>
exit_command == <<101, 120, 105, 116>>
bits == <<50, 48, 52, 56>>
no == <<110, 111>>

\* the arguments of the constructor: username "u", password "p", cli_prefix "P"
username == <<117>>
password == <<112>>
cli_prefix == <<80>>

\* timeout=10 of the calls of expect and the default of wait_write; timeout=1
\* of the read after "exit"
ExpectTimeout == 10
GraceTimeout == 1

\* str(self._hostname) inside an f-string
HostText == IF hostname = <<>> THEN <<78, 111, 110, 101>> ELSE hostname[1]

\* the property cli_prompt: f"{self._cli_prefix}:{self._hostname}#"
cli_prompt == cli_prefix \o <<58>> \o HostText \o <<35>>

\* re.compile(r"{prefix}:([^\s]+)#".format(prefix=self._cli_prefix))
cli_prompt_re == [kind |-> "prompt", text |-> cli_prefix]

\* re.compile(self.cli_prompt), for a prompt without special characters
cli_prompt_literal == [kind |-> "literal", text |-> cli_prompt]

\* The match of prefix:([^\s]+)# that starts at index i of d (0-based), as
\* <<[end, group]>>, or <<>>: after "prefix:" the group is the longest run of
\* non-whitespace characters that is followed by "#", at least one character.
PromptAt(prefix, d, i) ==
    IF ~OccursAt(d, prefix \o <<58>>, i) THEN <<>>
    ELSE LET j == i + Len(prefix) + 1
             H == {h \in (j + 2)..Len(d) :
                      /\ d[h] = 35
                      /\ \A x \in (j + 1)..(h - 1) : d[x] \notin Whitespace}
         IN  IF H = {} THEN <<>>
             ELSE LET h == CHOOSE x \in H : \A y \in H : y <= x
                  IN  <<[end |-> h, group |-> SubSeq(d, j + 1, h - 1)]>>

\* pattern.search(data) for the patterns of the console: [found, end, group]
ConsoleSearch(pattern, d) ==
    IF pattern.kind = "literal"
    THEN LET i == Find(d, pattern.text, 0)
         IN  [found |-> i # -1, end |-> i + Len(pattern.text), group |-> <<>>]
    ELSE LET I == {i \in 0..Len(d) : PromptAt(pattern.text, d, i) # <<>>}
         IN  IF I = {} THEN [found |-> FALSE, end |-> 0, group |-> <<>>]
             ELSE LET m == PromptAt(pattern.text, d, SetMin(I))[1]
                  IN  [found |-> TRUE, end |-> m.end, group |-> m.group]

\* A call of read_until / expect of the console's TelnetClient.
ReadUntil(target, timeout) ==
    [kind |-> "read_until", target |-> target, patterns |-> <<>>, timeout |-> timeout]
Expect(patterns, timeout) ==
    [kind |-> "expect", target |-> <<>>, patterns |-> patterns, timeout |-> timeout]

\* The search the call makes on a yielded data: [found, end, pat, group]
ConsoleMatch(o, d, off) ==
    IF o.kind = "read_until"
    THEN LET i == Find(d, o.target, off)
         IN  [found |-> i # -1, end |-> i + Len(o.target), pat |-> 0, group |-> <<>>]
    ELSE LET M == {k \in 1..Len(o.patterns) : ConsoleSearch(o.patterns[k], d).found}
         IN  IF M = {} THEN [found |-> FALSE, end |-> 0, pat |-> 0, group |-> <<>>]
             ELSE LET k == SetMin(M)
                      m == ConsoleSearch(o.patterns[k], d)
                  IN  [found |-> TRUE, end |-> m.end, pat |-> k, group |-> m.group]

\* The ways the call can end from a yield of data d, with search offset off,
\* the items q still on the queue and n items taken: a return when the search
\* succeeds; otherwise TimeoutError at the deadline check or in Queue.get,
\* EOFError when the stream is unreadable or the next item is END_OF_QUEUE,
\* or the next item is taken and data grows.  self._unconsumed is data at
\* every yield, and what follows the match on return.
RECURSIVE ReadOutcomes(_, _, _, _, _)
ReadOutcomes(o, d, off, q, n) ==
    LET m == ConsoleMatch(o, d, off)
        fail(kind, taken) == [kind |-> kind, ret |-> <<>>, unconsumed |-> StoreUnconsumed(d, d),
                              taken |-> taken, pat |-> 0, group |-> <<>>]
    IN  IF m.found
        THEN {[kind |-> "match", ret |-> Upto(d, m.end), unconsumed |-> Unread(d, m.end),
               taken |-> n, pat |-> m.pat, group |-> m.group]}
        ELSE {fail("timeout", n)}
             \cup (IF ~readable THEN {fail("eof", n)}
                   ELSE IF q = <<>> THEN {}
                   ELSE IF Head(q).eoq THEN {fail("eof", n + 1)}
                   ELSE ReadOutcomes(o, d \o Head(q).text,
                                     IF o.kind = "read_until"
                                     THEN SearchOffset(d \o Head(q).text, o.target) ELSE 0,
                                     Tail(q), n + 1))

\* a call ends as r, one of its ReadOutcomes: what it does to the TelnetClient
Reads(r) ==
    /\ unconsumed' = r.unconsumed
    /\ receiver_queue' = SubSeq(receiver_queue, r.taken + 1, Len(receiver_queue))
    /\ readable' = (IF r.kind = "eof" THEN FALSE ELSE readable)

\* the name of the exception a failed read raises
ErrorOfWrong(r) == "TimeoutError"
ErrorOf(r) == IF r.kind = "timeout" THEN "TimeoutError" ELSE "EOFError"

\* Entries of the trace of a method.
ReadEvent(r) == [ev |-> (IF r.kind = "match" THEN "read" ELSE r.kind), text |-> r.ret, wait |-> <<>>]
WriteEvent(t) == [ev |-> "write", text |-> t, wait |-> <<>>]
WaitWriteEvent(w, wait) == [ev |-> "wait_write", text |-> w, wait |-> wait]

\* self._console.write(f"{write}\r")
WrittenByWrong(w) == w
WrittenBy(w) == w \o CR

\* wait_write(write, None): nothing is read, the text is written at once
WriteNow(w) == <<WaitWriteEvent(w, <<>>), WriteEvent(WrittenBy(w))>>

\* the texts written by a list of trace entries
RECURSIVE TextsWritten(_)
TextsWritten(evs) ==
    IF evs = <<>> THEN <<>>
    ELSE (IF Head(evs).ev = "write" THEN <<Head(evs).text>> ELSE <<>>) \o TextsWritten(Tail(evs))

\* The entries evs are added to the trace; their writes are put on the sender
\* queue by TelnetClient.write.
Does(evs) ==
    /\ k_trace' = k_trace \o evs
    /\ sender_queue' = sender_queue \o TextsWritten(evs)
    /\ written' = written \o TextsWritten(evs)
    /\ UNCHANGED <<s_pc, s_data, wire, nwrites>>

\* A method is entered from outside.
Begin(method) ==
    /\ k_pc = "idle"
    /\ ncons < MaxConsoleCalls
    /\ ncons' = ncons + 1
    /\ UNCHANGED nsays
    /\ k_entry' = [connected |-> connected, hostname |-> hostname]

\* The method, entered just now, raises e or goes on to at after the entries evs.
Starts(method, e, at, evs) ==
    /\ k_call' = [method |-> method, error |-> e]
    /\ k_pc' = at
    /\ k_trace' = evs
    /\ sender_queue' = sender_queue \o TextsWritten(evs)
    /\ written' = written \o TextsWritten(evs)
    /\ UNCHANGED <<s_pc, s_data, wire, nwrites>>

\* The running method raises e / returns / goes on to the next blocking read.
Raises(e) == k_pc' = "idle" /\ k_call' = [method |-> k_call.method, error |-> e]
Returns == k_pc' = "idle" /\ k_call' = [method |-> k_call.method, error |-> "none"]
GoesOn(at) == k_pc' = at /\ UNCHANGED k_call

\* what no step of the console changes
ConsoleFrame ==
    /\ UNCHANGED <<pc, op, data, offset, elapsed, get_deadline, waited, gets, outcome, entry,
                   call_chunks, returned_all, enqueued_all, eoq_put, nputs, ncalls>>
    /\ UNCHANGED <<fvars, rvars, cvars, lvars, vvars>>

\* if self.connected: raise RuntimeError(...)
ConnectRaisesWrong == FALSE
ConnectRaises == connected

\* connect, up to the first expect: the guard, then wait_write("", None)
connect ==
    /\ Begin("connect")
    /\ IF ConnectRaises
       THEN Starts("connect", "RuntimeError", "idle", <<>>)
       ELSE Starts("connect", "running", "connect_expect", WriteNow(<<>>))
    /\ UNCHANGED <<connected, hostname, k_ww>>
    /\ UNCHANGED <<unconsumed, receiver_queue, readable>>
    /\ ConsoleFrame

\* self._hostname = match.group(1); self._connected = True
ConnectedWrong(r) == hostname' = <<r.ret>> /\ connected' = TRUE
Connected(r) == hostname' = <<r.group>> /\ connected' = TRUE

\* what connect does after "Username:": wait_write(self.username, None), then
\* wait_write(self.password, "Password:"), which starts to wait
SendsUsernameWrong == WriteNow(username) \o WriteNow(password)
SendsUsername == WriteNow(username) \o <<WaitWriteEvent(password, <<password_prompt>>)>>

\* expect([username_prompt, cli_prompt], timeout=10) and what follows it: on
\* the prompt the session is connected; on "Username:" the username is
\* written and wait_write(self.password, "Password:") starts to wait.
K_ConnectExpect ==
    /\ k_pc = "connect_expect"
    /\ \E r \in ReadOutcomes(Expect(<<username_prompt, cli_prompt_re>>, ExpectTimeout),
                             unconsumed, 0, receiver_queue, 0) :
        /\ Reads(r)
        /\ IF r.kind # "match"
           THEN /\ Raises(ErrorOf(r))
                /\ Does(<<ReadEvent(r)>>)
                /\ UNCHANGED <<connected, hostname, k_ww>>
           ELSE IF r.pat = 2
           THEN /\ Connected(r)
                /\ Returns
                /\ Does(<<ReadEvent(r)>>)
                /\ UNCHANGED k_ww
           ELSE /\ GoesOn("wait_write")
                /\ k_ww' = [write |-> password, wait |-> password_prompt,
                            timeout |-> ExpectTimeout, cont |-> "connect_auth"]
                /\ Does(<<ReadEvent(r)>> \o SendsUsername)
                /\ UNCHANGED <<connected, hostname>>
    /\ UNCHANGED <<k_entry, ncons, nsays>>
    /\ ConsoleFrame

\* What the caller of a wait_write that waited does once it has returned, up
\* to its next blocking read: [at, ww, evs].  generate_rsa_key enters its
\* second waiting wait_write; the public wait_write returns.
AfterWaitWriteWrong(cont) ==
    IF cont = "rsa_crypto"
    THEN [at |-> "rsa_expect", ww |-> <<>>, evs |-> WriteNow(crypto_key)]
    ELSE [at |-> (IF cont = "return" THEN "idle" ELSE cont), ww |-> <<>>, evs |-> <<>>]
AfterWaitWrite(cont) ==
    IF cont = "rsa_crypto"
    THEN [at |-> "wait_write",
          ww |-> <<[write |-> crypto_key, wait |-> cli_prompt,
                    timeout |-> ExpectTimeout, cont |-> "rsa_expect"]>>,
          evs |-> <<WaitWriteEvent(crypto_key, <<cli_prompt>>)>>]
    ELSE [at |-> (IF cont = "return" THEN "idle" ELSE cont), ww |-> <<>>, evs |-> <<>>]

\* wait_write with a text to wait for: self._console.read_until(wait, timeout),
\* then self._console.write(f"{write}\r"); an error of the read is not caught,
\* here or in the method that called wait_write.
K_WaitWrite ==
    /\ k_pc = "wait_write"
    /\ \E r \in ReadOutcomes(ReadUntil(k_ww.wait, k_ww.timeout), unconsumed, 0, receiver_queue, 0) :
        /\ Reads(r)
        /\ IF r.kind # "match"
           THEN /\ Raises(ErrorOf(r))
                /\ Does(<<ReadEvent(r)>>)
                /\ UNCHANGED k_ww
           ELSE LET after == AfterWaitWrite(k_ww.cont)
                IN  /\ Does(<<ReadEvent(r), WriteEvent(WrittenBy(k_ww.write))>> \o after.evs)
                    /\ k_ww' = (IF after.ww = <<>> THEN k_ww ELSE after.ww[1])
                    /\ IF after.at = "idle" THEN Returns ELSE GoesOn(after.at)
    /\ UNCHANGED <<connected, hostname, k_entry, ncons, nsays>>
    /\ ConsoleFrame

\* if pattern == auth_failed: raise RuntimeError(...)
AuthRaisesWrong(r) == FALSE
AuthRaises(r) == r.pat = 1

\* expect([auth_failed, cli_prompt], timeout=10) and the end of connect
K_ConnectAuth ==
    /\ k_pc = "connect_auth"
    /\ \E r \in ReadOutcomes(Expect(<<auth_failed, cli_prompt_re>>, ExpectTimeout),
                             unconsumed, 0, receiver_queue, 0) :
        /\ Reads(r)
        /\ Does(<<ReadEvent(r)>>)
        /\ IF r.kind # "match"
           THEN Raises(ErrorOf(r)) /\ UNCHANGED <<connected, hostname>>
           ELSE IF AuthRaises(r)
           THEN Raises("AuthenticationFailed") /\ UNCHANGED <<connected, hostname>>
           ELSE Connected(r) /\ Returns
    /\ UNCHANGED <<k_ww, k_entry, ncons, nsays>>
    /\ ConsoleFrame

\* if not self.connected: raise RuntimeError(...)
NotConnectedRaises == ~connected

\* disconnect, up to the read of wait_write("exit", self.cli_prompt)
disconnect ==
    /\ Begin("disconnect")
    /\ IF NotConnectedRaises
       THEN Starts("disconnect", "RuntimeError", "idle", <<>>) /\ UNCHANGED k_ww
       ELSE /\ Starts("disconnect", "running", "wait_write",
                      <<WaitWriteEvent(exit_command, <<cli_prompt>>)>>)
            /\ k_ww' = [write |-> exit_command, wait |-> cli_prompt,
                        timeout |-> ExpectTimeout, cont |-> "disconnect_read"]
    /\ UNCHANGED <<connected, hostname>>
    /\ UNCHANGED <<unconsumed, receiver_queue, readable>>
    /\ ConsoleFrame

\* what disconnect does when read_until(self.cli_prompt, timeout=1) ends as
\* kind: a return raises the disconnection error inside the try, which only
\* catches TimeoutError; TimeoutError is the success; EOFError is not caught
AfterExitWrong(kind) == "none"
AfterExitCatchesAll(kind) == IF kind = "match" THEN "DisconnectionFailed" ELSE "none"
AfterExit(kind) ==
    IF kind = "match" THEN "DisconnectionFailed"
    ELSE IF kind = "timeout" THEN "none"
    ELSE "EOFError"

\* self._hostname = None; self._connected = False
DisconnectedWrong == connected' = FALSE /\ UNCHANGED hostname
Disconnected == hostname' = <<>> /\ connected' = FALSE

\* the try block of disconnect
K_DisconnectRead ==
    /\ k_pc = "disconnect_read"
    /\ \E r \in ReadOutcomes(ReadUntil(cli_prompt, GraceTimeout), unconsumed, 0, receiver_queue, 0) :
        /\ Reads(r)
        /\ Does(<<ReadEvent(r)>>)
        /\ IF AfterExit(r.kind) = "none"
           THEN /\ Disconnected
                /\ Returns
           ELSE /\ Raises(AfterExit(r.kind))
                /\ UNCHANGED <<connected, hostname>>
    /\ UNCHANGED <<k_ww, k_entry, ncons, nsays>>
    /\ ConsoleFrame

\* generate_rsa_key, up to the read of wait_write("terminal length 0",
\* self.cli_prompt): the guard, then wait_write("")
generate_rsa_key ==
    /\ Begin("generate_rsa_key")
    /\ IF NotConnectedRaises
       THEN Starts("generate_rsa_key", "RuntimeError", "idle", <<>>) /\ UNCHANGED k_ww
       ELSE /\ Starts("generate_rsa_key", "running", "wait_write",
                      WriteNow(<<>>) \o <<WaitWriteEvent(terminal_length, <<cli_prompt>>)>>)
            /\ k_ww' = [write |-> terminal_length, wait |-> cli_prompt,
                        timeout |-> ExpectTimeout, cont |-> "rsa_crypto"]
    /\ UNCHANGED <<connected, hostname>>
    /\ UNCHANGED <<unconsumed, receiver_queue, readable>>
    /\ ConsoleFrame

\* what generate_rsa_key answers to the pattern matched: "2048" to new_key,
\* "no" to key_exists, nothing to the prompt
AnswerToWrong(pat) ==
    IF pat = 1 THEN WriteNow(bits) ELSE WriteNow(no)
AnswerTo(pat) ==
    IF pat = 1 THEN WriteNow(bits)
    ELSE IF pat = 2 THEN WriteNow(no)
    ELSE <<>>

\* expect([new_key, key_exists, re.compile(self.cli_prompt)], 10) and the answer
K_RsaExpect ==
    /\ k_pc = "rsa_expect"
    /\ \E r \in ReadOutcomes(Expect(<<new_key, key_exists, cli_prompt_literal>>, ExpectTimeout),
                             unconsumed, 0, receiver_queue, 0) :
        /\ Reads(r)
        /\ IF r.kind # "match"
           THEN Raises(ErrorOf(r)) /\ Does(<<ReadEvent(r)>>)
           ELSE Returns /\ Does(<<ReadEvent(r)>> \o AnswerTo(r.pat))
    /\ UNCHANGED <<connected, hostname, k_ww, k_entry, ncons, nsays>>
    /\ ConsoleFrame

\* Arguments of a call of wait_write from outside: the text "x", with
\* nothing to wait for or with "Password:" to wait for.
WaitWriteArgs == {[write |-> <<120>>, wait |-> <<>>], [write |-> <<120>>, wait |-> <<password_prompt>>]}

\* wait_write called from outside, up to its read if it has one
wait_write ==
    /\ Begin("wait_write")
    /\ \E a \in WaitWriteArgs :
        IF a.wait = <<>>
        THEN Starts("wait_write", "none", "idle", WriteNow(a.write)) /\ UNCHANGED k_ww
        ELSE /\ Starts("wait_write", "running", "wait_write",
                       <<WaitWriteEvent(a.write, a.wait)>>)
             /\ k_ww' = [write |-> a.write, wait |-> a.wait[1],
                         timeout |-> ExpectTimeout, cont |-> "return"]
    /\ UNCHANGED <<connected, hostname>>
    /\ UNCHANGED <<unconsumed, receiver_queue, readable>>
    /\ ConsoleFrame

\* What the router may send while a method of the console runs, each text as
\* one chunk put on the matching queue by the receiver: during connect
\* "Username:", "Password:", the prompt "P:r1#" and the authentication
\* failure; during generate_rsa_key the prompt and the two questions of the
\* key generation; during disconnect and wait_write the prompt and "Password:".
ConsoleChunks(method) ==
    IF method = "connect"
    THEN {username_prompt.text, password_prompt, <<80, 58, 114, 49, 35>>, auth_failed.text}
    ELSE IF method = "generate_rsa_key"
    THEN {<<80, 58, 114, 49, 35>>, new_key.text, key_exists.text}
    ELSE {<<80, 58, 114, 49, 35>>, password_prompt}

\* the receiver puts a chunk sent by the router on the matching queue
RouterSends ==
    /\ k_pc # "idle"
    /\ ~eoq_put
    /\ nsays < MaxSays
    /\ nsays' = nsays + 1
    /\ \E c \in ConsoleChunks(k_call.method) : receiver_queue' = Append(receiver_queue, TextItem(c))
    /\ UNCHANGED <<connected, hostname, k_pc, k_ww, k_call, k_entry, k_trace, ncons>>
    /\ UNCHANGED <<unconsumed, readable, svars>>
    /\ ConsoleFrame

\* IOSXRConsole.__init__ on an open TelnetClient
InitConsole ==
    /\ connected = FALSE
    /\ hostname = <<>>
    /\ k_pc = "idle"
    /\ k_ww = [write |-> <<>>, wait |-> <<>>, timeout |-> ExpectTimeout, cont |-> "return"]
    /\ k_call = [method |-> "none", error |-> "none"]
    /\ k_entry = [connected |-> FALSE, hostname |-> <<>>]
    /\ k_trace = <<>>
    /\ ncons = 0
    /\ nsays = 0

NextConsole ==
    \/ connect
    \/ K_ConnectExpect
    \/ K_WaitWrite
    \/ K_ConnectAuth
    \/ disconnect
    \/ K_DisconnectRead
    \/ generate_rsa_key
    \/ K_RsaExpect
    \/ wait_write
    \/ RouterSends
    \/ PutEnd

(***************************************************************************)
(* VirtualRouter (vms/vr.py): start and stop.  Each call made by start and *)
(* stop is a step; a call that raises ends the method, which catches       *)
(* nothing.                                                                *)
(***************************************************************************)
\* the property started: self._boot_process is not None
started == boot_process

\* the calls start() makes, in the order of its body, and those of stop()
StartSteps == <<"setup_host", "wait_provisioned_nics", "pre_start", "_start", "post_start">>
StopSteps == <<"pre_stop", "_stop", "post_stop">>

\* if self.started: raise RuntimeError(...) / if not self.started: raise ...
StartRaisesWrong == FALSE
StartRaises == started
StopRaises == ~started

\* start() or stop() is called: the guard, then TFTP_FOLDER.mkdir for start
Enter(method, raises, first) ==
    /\ v_pc = "idle"
    /\ g_pc = "idle"
    /\ nvm < MaxVmCalls
    /\ nvm' = nvm + 1
    /\ v_trace' = <<>>
    /\ IF raises
       THEN v_pc' = "idle" /\ v_call' = [method |-> method, error |-> "RuntimeError"]
       ELSE v_pc' = first /\ v_call' = [method |-> method, error |-> "running"]
    /\ UNCHANGED <<boot_process, ports_started, xvars>>
    /\ UNCHANGED <<mvars, fvars, rvars, cvars, svars, lvars, kvars, nvars>>

start == Enter("start", StartRaises, StartSteps[1])
stop == Enter("stop", StopRaises, StopSteps[1])

\* the position after the call at: the next call of the method, or its return
After(steps, at) ==
    LET i == CHOOSE k \in 1..Len(steps) : steps[k] = at
    IN  IF i = Len(steps) THEN "idle" ELSE steps[i + 1]

\* the processes of the VM: the boot process and the port forwardings
Now == [boot |-> boot_process, ports |-> ports_started]

\* The call at, of the body steps, is made: it returns with the processes as
\* in done and the method goes on (or returns after its last call), or it
\* raises with the processes as in one of failed and the method ends with
\* that error.
Calls(steps, at, done, failed) ==
    /\ v_pc = at
    /\ v_trace' = Append(v_trace, at)
    /\ \/ /\ v_pc' = After(steps, at)
          /\ v_call' = (IF After(steps, at) = "idle"
                        THEN [method |-> v_call.method, error |-> "none"] ELSE v_call)
          /\ boot_process' = done.boot
          /\ ports_started' = done.ports
       \/ /\ v_pc' = "idle"
          /\ v_call' = [method |-> v_call.method, error |-> "Exception"]
          /\ \E f \in failed : boot_process' = f.boot /\ ports_started' = f.ports
    /\ UNCHANGED <<nvm, xvars>>
    /\ UNCHANGED <<mvars, fvars, rvars, cvars, svars, lvars, kvars, nvars>>

\* self.connection.setup_host(self.host)
V_SetupHost == Calls(StartSteps, "setup_host", Now, {Now})
\* self.host.wait_provisioned_nics()
V_WaitProvisionedNics == Calls(StartSteps, "wait_provisioned_nics", Now, {Now})
\* self.pre_start(), of the subclass
V_PreStart == Calls(StartSteps, "pre_start", Now, {Now})
\* self._start(): self._boot_process = subprocess.Popen(...), the logging
\* threads, then forwarded_port.start() for the port forwardings not started;
\* it may raise before the assignment, or after it with the port
\* forwardings started or not.
V_Start ==
    Calls(StartSteps, "_start", [boot |-> TRUE, ports |-> TRUE],
          {Now, [boot |-> TRUE, ports |-> ports_started], [boot |-> TRUE, ports |-> TRUE]})
\* self.post_start(), of the subclass
V_PostStart == Calls(StartSteps, "post_start", Now, {Now})
\* self.pre_stop(), of the subclass
V_PreStop == Calls(StopSteps, "pre_stop", Now, {Now})
\* self._stop(): forwarded_port.stop() for the port forwardings started, then
\* kill, wait(5) and self._boot_process = None; it may raise before or after
\* the port forwardings are stopped, and before the assignment.
V_Stop ==
    Calls(StopSteps, "_stop", [boot |-> FALSE, ports |-> FALSE],
          {Now, [boot |-> boot_process, ports |-> FALSE]})
\* self.post_stop(), of the subclass
V_PostStop == Calls(StopSteps, "post_stop", Now, {Now})

(***************************************************************************)
(* The connections VirtualRouter opens (vms/vr.py) and XRV (vms/xrv.py):   *)
(* post_start and pre_stop on the serial console.                          *)
(***************************************************************************)
\* XRV.SERIAL_CONSOLE_COUNT
SERIAL_CONSOLE_COUNT == 4
\* max_retry, of both getters
max_retry == 5
\* XRV.CONFIG_TIMEOUT, in seconds
CONFIG_TIMEOUT == 20 * 60

\* the indexes get_serial_console_connection is called with
Indexes == 0..MaxIndex

\* time.time() moves on by d seconds
Passes(d) == x_clock + d <= MaxClock /\ x_clock' = x_clock + d

\* if index >= self.SERIAL_CONSOLE_COUNT: raise ValueError(...)
IndexRaises(method, index) ==
    method = "get_serial_console_connection" /\ index >= SERIAL_CONSOLE_COUNT

\* A connection getter is entered, by the caller or by post_start: the check
\* of the index, then the loop.
GetConnection(method, index, by) ==
    /\ g_pc = "idle"
    /\ g_call' = [method |-> method, index |-> index, by |-> by, tries |-> <<>>,
                  error |-> (IF IndexRaises(method, index) THEN "ValueError" ELSE "running")]
    /\ g_pc' = (IF IndexRaises(method, index) THEN "idle" ELSE "try")

\* What TelnetClient(...).open() ends with: the connection is open, the
\* connection was refused, or create_connection raised another OSError.
OpenOutcomes == {"open", "ConnectionRefusedError", "OSError"}

\* except ConnectionRefusedError: pass
Retried(o) == o = "ConnectionRefusedError"

\* for _ in range(0, max_retry): the loop is left after this many attempts
GivesUpWrong(n) == n > max_retry
GivesUp(n) == n >= max_retry

\* post_start ends with the error e, and start(), which catches nothing,
\* with it
PostStartRaises(e) ==
    /\ x_pc' = "idle"
    /\ v_pc' = "idle"
    /\ v_call' = [method |-> v_call.method, error |-> e]

\* post_start returns, and start() after it
PostStartReturns ==
    /\ x_pc' = "idle"
    /\ v_pc' = After(StartSteps, "post_start")
    /\ v_call' = [method |-> v_call.method, error |-> "none"]

\* The getter ends with the error e ("none": it returns the connection).
\* When post_start called it, the connection becomes self._xr_console and
\* start_time = time.time() is taken, or post_start ends with the error.
GetterEnds(e, tries) ==
    /\ g_pc' = "idle"
    /\ g_call' = [g_call EXCEPT !.tries = tries, !.error = e]
    /\ IF g_call.by = "post_start"
       THEN IF e = "none"
            THEN /\ xr_console' = "open"
                 /\ x_pc' = "marker"
                 /\ start_time' = x_clock'
                 /\ UNCHANGED <<v_pc, v_call>>
            ELSE /\ PostStartRaises(e)
                 /\ UNCHANGED <<xr_console, start_time>>
       ELSE UNCHANGED <<xr_console, x_pc, start_time, v_pc, v_call>>

\* One turn of the loop of a getter: TelnetClient(...).open().  When it
\* succeeds the connection is returned; ConnectionRefusedError is caught,
\* time.sleep(1) follows and the loop goes on, or is left for RuntimeError
\* after max_retry attempts; any other error leaves the getter at once.
G_Attempt ==
    /\ g_pc = "try"
    /\ \E o \in OpenOutcomes :
        LET tries == Append(g_call.tries, o)
        IN  IF o = "open"
            THEN UNCHANGED x_clock /\ GetterEnds("none", tries)
            ELSE IF Retried(o)
            THEN /\ Passes(1)
                 /\ IF GivesUp(Len(tries))
                    THEN GetterEnds("RuntimeError", tries)
                    ELSE /\ g_call' = [g_call EXCEPT !.tries = tries]
                         /\ UNCHANGED <<g_pc, xr_console, x_pc, start_time, v_pc, v_call>>
            ELSE UNCHANGED x_clock /\ GetterEnds(o, tries)
    /\ UNCHANGED <<boot_process, ports_started, v_trace, nvm, x_trace>>
    /\ UNCHANGED <<mvars, fvars, rvars, cvars, svars, lvars, kvars, nvars>>

\* the caller calls a getter
CallGetter(method, index) ==
    /\ v_pc = "idle"
    /\ nvm < MaxVmCalls
    /\ nvm' = nvm + 1
    /\ GetConnection(method, index, "caller")
    /\ UNCHANGED <<boot_process, ports_started, v_pc, v_call, v_trace>>
    /\ UNCHANGED <<xr_console, x_pc, x_clock, start_time, x_trace>>
    /\ UNCHANGED <<mvars, fvars, rvars, cvars, svars, lvars, kvars, nvars>>

get_qemu_monitor_connection == CallGetter("get_qemu_monitor_connection", 0)
get_serial_console_connection ==
    \E index \in Indexes : CallGetter("get_serial_console_connection", index)

\* XRV.post_start is entered by start(): when self._xr_console is None it
\* calls get_serial_console_connection(), with the default index 0;
\* otherwise start_time = time.time() and the first wait follows.
X_PostStart ==
    /\ v_pc = "post_start"
    /\ x_pc = "idle"
    /\ v_trace' = Append(v_trace, "post_start")
    /\ x_trace' = <<>>
    /\ IF xr_console = "none"
       THEN /\ GetConnection("get_serial_console_connection", 0, "post_start")
            /\ x_pc' = "connect"
            /\ UNCHANGED start_time
       ELSE /\ x_pc' = "marker"
            /\ start_time' = x_clock
            /\ UNCHANGED <<g_pc, g_call>>
    /\ UNCHANGED <<boot_process, ports_started, v_pc, v_call, nvm, xr_console, x_clock>>
    /\ UNCHANGED <<mvars, fvars, rvars, cvars, svars, lvars, kvars, nvars>>

\* how long the console takes to send what a wait is looking for, in seconds
Delays == {0, 600, 1200}

\* What read_until / expect with this timeout ends with, and after how long:
\* the text is found, at once when it is in the buffer already and otherwise
\* when it arrives before the timeout has run out; TimeoutError once the
\* timeout has run out (at once when it is not positive); EOFError when the
\* console was closed before.
WaitOutcomes(timeout) ==
    {[kind |-> k, after |-> d] : k \in {"match", "EOFError"},
                                 d \in {d \in Delays : d = 0 \/ d < timeout}}
    \cup {[kind |-> "TimeoutError", after |-> (IF timeout > 0 THEN timeout ELSE 0)]}

\* a wait of post_start, as the trace keeps it: the call and its timeout,
\* when it was made and when it ended, how it ended and what it read
Waited(what, timeout, r, read) ==
    [wait |-> what, timeout |-> timeout, at |-> x_clock, ends |-> x_clock',
     kind |-> r.kind, read |-> read]

\* self._xr_console.read_until("export@cisco.com.", timeout=timeout), with
\* timeout = self.CONFIG_TIMEOUT, which is positive.  The text read ends with
\* the marker; errors leave post_start.
X_ReadMarker ==
    /\ x_pc = "marker"
    /\ \E r \in WaitOutcomes(CONFIG_TIMEOUT) :
        /\ Passes(r.after)
        /\ IF r.kind = "match"
           THEN /\ x_trace' = Append(x_trace, Waited("read_until", CONFIG_TIMEOUT, r, "marker"))
                /\ x_pc' = "cvac"
                /\ UNCHANGED <<v_pc, v_call>>
           ELSE /\ x_trace' = Append(x_trace, Waited("read_until", CONFIG_TIMEOUT, r, "none"))
                /\ PostStartRaises(r.kind)
    /\ UNCHANGED <<boot_process, ports_started, v_trace, nvm>>
    /\ UNCHANGED <<xr_console, g_pc, g_call, start_time>>
    /\ UNCHANGED <<mvars, fvars, rvars, cvars, svars, lvars, kvars, nvars>>

\* the third group of cvac_config_regex, CONFIG_([A-Z]+): the stages the
\* code names, and one it does not
Stages == {"START", "DONE", "FAILED"}

\* remaining_time = timeout; remaining_time -= time.time() - start_time
RemainingWrong == CONFIG_TIMEOUT
Remaining == CONFIG_TIMEOUT - (x_clock - start_time)

\* if stage == "START": continue
KeepsWaiting(stage) == stage = "START"

\* One turn of the loop while not cvac_config_done: the remaining time, then
\* expect([cvac_config_regex], timeout=remaining_time) and the stage of the
\* line matched: on START the loop goes on, on DONE it ends and post_start
\* returns, any other stage raises RuntimeError.
X_ExpectCvac ==
    /\ x_pc = "cvac"
    /\ Len(x_trace) < MaxWaits
    /\ \E r \in WaitOutcomes(Remaining) :
        /\ Passes(r.after)
        /\ IF r.kind = "match"
           THEN \E stage \in Stages :
                /\ x_trace' = Append(x_trace, Waited("expect", Remaining, r, stage))
                /\ IF KeepsWaiting(stage)
                   THEN UNCHANGED <<x_pc, v_pc, v_call>>
                   ELSE IF stage = "DONE"
                   THEN PostStartReturns
                   ELSE PostStartRaises("RuntimeError")
           ELSE /\ x_trace' = Append(x_trace, Waited("expect", Remaining, r, "none"))
                /\ PostStartRaises(r.kind)
    /\ UNCHANGED <<boot_process, ports_started, v_trace, nvm>>
    /\ UNCHANGED <<xr_console, g_pc, g_call, start_time>>
    /\ UNCHANGED <<mvars, fvars, rvars, cvars, svars, lvars, kvars, nvars>>

\* Time passes between two waits of post_start, in LOGGER.info (lines 188
\* and 208) or while the thread is not scheduled, before remaining_time is
\* computed.
X_Tick ==
    /\ x_pc = "cvac"
    /\ \E d \in Delays \ {0} : Passes(d)
    /\ UNCHANGED <<boot_process, ports_started, v_pc, v_call, v_trace, nvm>>
    /\ UNCHANGED <<xr_console, g_pc, g_call, x_pc, start_time, x_trace>>
    /\ UNCHANGED <<mvars, fvars, rvars, cvars, svars, lvars, kvars, nvars>>

\* XRV.pre_stop: the console connection, when there is one, is closed and
\* self._xr_console = None
X_PreStop ==
    /\ v_pc = "pre_stop"
    /\ v_trace' = Append(v_trace, "pre_stop")
    /\ v_pc' = After(StopSteps, "pre_stop")
    /\ xr_console' = "none"
    /\ UNCHANGED <<boot_process, ports_started, v_call, nvm>>
    /\ UNCHANGED <<g_pc, g_call, x_pc, x_clock, start_time, x_trace>>
    /\ UNCHANGED <<mvars, fvars, rvars, cvars, svars, lvars, kvars, nvars>>

\* XRV.post_stop: pass; stop() returns
X_PostStop ==
    /\ v_pc = "post_stop"
    /\ v_trace' = Append(v_trace, "post_stop")
    /\ v_pc' = After(StopSteps, "post_stop")
    /\ v_call' = [method |-> v_call.method, error |-> "none"]
    /\ UNCHANGED <<boot_process, ports_started, nvm, xvars>>
    /\ UNCHANGED <<mvars, fvars, rvars, cvars, svars, lvars, kvars, nvars>>

\* XRV.__init__: self._xr_console = None; nothing has been called
InitXRV ==
    /\ xr_console = "none"
    /\ g_pc = "idle"
    /\ g_call = [method |-> "none", index |-> 0, by |-> "caller", tries |-> <<>>, error |-> "none"]
    /\ x_pc = "idle"
    /\ x_clock = 0
    /\ start_time = 0
    /\ x_trace = <<>>

(***************************************************************************)
(* VirtualRouter.boot_args (vms/vr.py): the PCI bridges and the NICs, with *)
(* NetworkInterfaceController (host/nic.py).                               *)
(***************************************************************************)
\* VirtualRouter.NICS_PER_PCI_BUS
NICS_PER_PCI_BUS == 26

\* the digit d of a number written in decimal or in lowercase hexadecimal
Digit(d) == IF d < 10 THEN 48 + d ELSE 87 + d

\* f"{n}" for the base 10 and f"{n:x}" for the base 16
RECURSIVE Format(_, _)
Format(n, base) ==
    IF n < base THEN <<Digit(n)>>
    ELSE Format(n \div base, base) \o <<Digit(n % base)>>

\* f"pci.{pci}"
PciId(pci) == <<112, 99, 105, 46>> \o Format(pci, 10)

\* math.ceil(self.nics / self.NICS_PER_PCI_BUS)
NumPciBuses(n) == (n + NICS_PER_PCI_BUS - 1) \div NICS_PER_PCI_BUS

\* NetworkInterfaceController(index=index, nics_per_pci_bus=...):
\* pci_bus = math.floor(index / nics_per_pci_bus) + 1, self.bus = f"pci.{pci_bus}",
\* pci_addr = (index % nics_per_pci_bus) + 1, self.addr = f"0x{pci_addr:x}"
NetworkInterfaceController(index, nics_per_pci_bus) ==
    LET pci_bus == (index \div nics_per_pci_bus) + 1
        pci_addr == (index % nics_per_pci_bus) + 1
    IN  [index |-> index, pci_bus |-> pci_bus, pci_addr |-> pci_addr,
         bus |-> PciId(pci_bus), addr |-> <<48, 120>> \o Format(pci_addr, 16)]

\* The hosts: the highest X of the provisioned interfaces ethX (0 for none),
\* and one interface below it that does not exist (0 for none).
Hosts ==
    {[highest |-> h, missing |-> m] : h \in 0..MaxNics, m \in {0, 1}} \ 
    {[highest |-> h, missing |-> 1] : h \in {0, 1}}

\* self.host.has_interface(f"eth{nic_index}")
has_interface(i) == i >= 1 /\ i <= host.highest /\ i # host.missing

\* boot_args is evaluated: the pci-bridge devices for pci in
\* range(1, num_pci_buses + 1), then _nics_boot_args starts its loop
boot_args ==
    /\ b_pc = "idle"
    /\ \E n \in 0..MaxNics, h \in Hosts :
        /\ nics' = n
        /\ host' = h
        /\ pci_bridges' = [pci \in 1..NumPciBuses(n) |-> PciId(pci)]
    /\ nic_devices' = <<>>
    /\ nic_index' = 1
    /\ b_pc' = "nics"
    /\ UNCHANGED <<boot_process, ports_started, v_pc, v_call, v_trace, nvm, xvars>>
    /\ UNCHANGED <<mvars, fvars, rvars, cvars, svars, lvars, kvars>>

\* One turn of the loop for nic_index in range(1, self.nics + 1): the NIC of
\* the index; when the interface exists, the device of
\* connection.qemu_nic_args(nic), with bus=nic.bus and addr=nic.addr; when it
\* does not and the index is below the highest provisioned one, the dummy
\* device on the same bus and address; otherwise nothing.
B_Nic ==
    /\ b_pc = "nics"
    /\ nic_index <= nics
    /\ LET nic == NetworkInterfaceController(nic_index, NICS_PER_PCI_BUS)
       IN  nic_devices' =
               IF has_interface(nic_index)
               THEN Append(nic_devices, nic @@ [dummy |-> FALSE])
               ELSE IF nic_index >= host.highest
               THEN nic_devices
               ELSE Append(nic_devices, nic @@ [dummy |-> TRUE])
    /\ nic_index' = nic_index + 1
    /\ UNCHANGED <<nics, host, b_pc, pci_bridges>>
    /\ UNCHANGED <<boot_process, ports_started, v_pc, v_call, v_trace, nvm, xvars>>
    /\ UNCHANGED <<mvars, fvars, rvars, cvars, svars, lvars, kvars>>

\* the loop is over: boot_args returns the arguments
B_Return ==
    /\ b_pc = "nics"
    /\ nic_index > nics
    /\ b_pc' = "idle"
    /\ UNCHANGED <<nics, host, nic_index, pci_bridges, nic_devices>>
    /\ UNCHANGED <<boot_process, ports_started, v_pc, v_call, v_trace, nvm, xvars>>
    /\ UNCHANGED <<mvars, fvars, rvars, cvars, svars, lvars, kvars>>

\* A VirtualRouter made with no NIC, whose boot_args was not evaluated yet
InitNics ==
    /\ nics = 0
    /\ host = [highest |-> 0, missing |-> 0]
    /\ b_pc = "idle"
    /\ nic_index = 1
    /\ pci_bridges = <<>>
    /\ nic_devices = <<>>

NextNics ==
    \/ boot_args
    \/ B_Nic
    \/ B_Return

\* VirtualRouter.__init__: self._boot_process = None, and no port forwarding
\* started
InitVM ==
    /\ boot_process = FALSE
    /\ ports_started = FALSE
    /\ v_pc = "idle"
    /\ v_call = [method |-> "none", error |-> "none"]
    /\ v_trace = <<>>
    /\ nvm = 0
    /\ InitXRV
    /\ InitNics

NextVM ==
    \/ start
    \/ V_SetupHost
    \/ V_WaitProvisionedNics
    \/ V_PreStart
    \/ V_Start
    \/ V_PostStart
    \/ stop
    \/ V_PreStop
    \/ V_Stop
    \/ V_PostStop

\* An XRV: start and stop with the post_start, pre_stop and post_stop of XRV.
NextXRV ==
    \/ start
    \/ V_SetupHost
    \/ V_WaitProvisionedNics
    \/ V_PreStart
    \/ V_Start
    \/ X_PostStart
    \/ G_Attempt
    \/ X_ReadMarker
    \/ X_ExpectCvac
    \/ X_Tick
    \/ stop
    \/ X_PreStop
    \/ V_Stop
    \/ X_PostStop

\* The connection getters, called by the caller one after the other.
NextGetters ==
    \/ get_qemu_monitor_connection
    \/ get_serial_console_connection
    \/ G_Attempt

\* Every specification starts from the same state: a freshly opened
\* connection, a filter that has not run, a console session that is not
\* connected and a VM that is not started.
Init ==
    /\ InitMatcher /\ InitFilter /\ InitReceiver /\ InitCaller /\ InitSender /\ InitLogs
    /\ InitConsole /\ InitVM

SpecMatcher == Init /\ [][NextMatcher]_vars

SpecReadAll == Init /\ [][NextReadAll]_vars

SpecReopen == Init /\ [][NextReopen]_vars

SpecFilter == Init /\ [][NextFilter]_vars

SpecReceiver == Init /\ [][NextConnection]_vars

SpecSender == Init /\ [][NextSender]_vars

\* The three threads are scheduled: each one that can take a step eventually
\* takes one, and a close() that was entered runs to its end.  The caller and
\* the peer are free to act or not.
SpecWorkers ==
    /\ Init
    /\ [][NextWorkers]_vars
    /\ WF_vars(ReceiverStep)
    /\ WF_vars(SenderStep)
    /\ WF_vars(L_Get)
    /\ WF_vars(CloseStep)

SpecLogs == Init /\ [][NextLogs]_vars

SpecConsole == Init /\ [][NextConsole]_vars

SpecVM == Init /\ [][NextVM]_vars

SpecXRV == Init /\ [][NextXRV]_vars

SpecGetters == Init /\ [][NextGetters]_vars

SpecNics == Init /\ [][NextNics]_vars

(***************************************************************************)
(* Claims about the matcher, checked under SpecMatcher.                    *)
(***************************************************************************)
\* The text a call has seen: the buffer at entry followed by what it dequeued.
Accumulated == entry.unconsumed \o Flatten(call_chunks)

\* C1: byte conservation.  Between calls (whether they matched, timed out
\* or met the end of the stream) the texts returned so far, then the
\* unconsumed buffer, then the text chunks still on the matching queue,
\* are exactly the text chunks the receiver has enqueued, in order.
C1_ByteConservation ==
    pc = "idle" =>
        returned_all \o unconsumed \o QueueText(receiver_queue) = enqueued_all

\* Two calls were made, the last one matched, and text sits in all three
\* places: returned, unconsumed, queued.
C1_Witness ==
    /\ pc = "idle"
    /\ ncalls = 2
    /\ outcome.kind = "match"
    /\ returned_all # <<>>
    /\ unconsumed # <<>>
    /\ QueueText(receiver_queue) # <<>>

\* C2: read_until is independent of chunking.  When it returns, the text
\* returned is the accumulated text up to and including the first
\* occurrence of the target searched from position 0, and the unconsumed
\* buffer is everything after it; while it is still waiting, the accumulated
\* text holds no occurrence of the target (the search offset skipped none).
C2_ReadUntilChunking ==
    op.kind = "read_until" =>
        LET i == Find(Accumulated, op.target, 0)
        IN  /\ outcome.kind = "match" =>
                /\ i # -1
                /\ outcome.text = Upto(Accumulated, i + Len(op.target))
                /\ outcome.rest = SubSeq(Accumulated, i + Len(op.target) + 1, Len(Accumulated))
                /\ pc = "idle" => unconsumed = outcome.rest
            /\ pc \in {"check", "get"} => i = -1

\* read_until("ab") returned "baab" after the deliveries "ba", "a", "b": the
\* target was split across two queue chunks and was found by a search that
\* started at offset 1.
C2_Witness ==
    /\ op.kind = "read_until"
    /\ op.target = <<97, 98>>
    /\ outcome.kind = "match"
    /\ entry.unconsumed = <<>>
    /\ call_chunks = << <<98, 97>>, <<97>>, <<98>> >>
    /\ outcome.text = <<98, 97, 97, 98>>

\* C3: expect returns the first pattern, in list order, that matches the
\* accumulated text, even when a later pattern matches further left; the
\* text returned ends at that pattern's match end and the rest is left in
\* the unconsumed buffer.
C3_ExpectFirstInOrder ==
    (op.kind = "expect" /\ outcome.kind = "match") =>
        LET k == outcome.pat
        IN  /\ k \in 1..Len(op.patterns)
            /\ Search(op.patterns[k], Accumulated).found
            /\ \A j \in 1..(k - 1) : ~Search(op.patterns[j], Accumulated).found
            /\ outcome.text = Upto(Accumulated, Search(op.patterns[k], Accumulated).end)
            /\ outcome.text \o outcome.rest = Accumulated
            /\ pc = "idle" => unconsumed = outcome.rest

\* expect returned its first pattern although the second pattern matches
\* the same accumulated text further left.
C3_Witness ==
    /\ op.kind = "expect"
    /\ outcome.kind = "match"
    /\ outcome.pat = 1
    /\ Len(op.patterns) = 2
    /\ Search(op.patterns[2], Accumulated).found
    /\ Search(op.patterns[2], Accumulated).start < Search(op.patterns[1], Accumulated).start

\* C4: a call that ends with a timeout changes nothing but the buffer: the
\* stream is as readable as it was at entry, and the unconsumed buffer is
\* all the text the call accumulated (the buffer at entry and every chunk it
\* dequeued), so nothing read during the failed call is lost.
C4_TimeoutKeepsText ==
    (pc = "idle" /\ outcome.kind = "timeout") =>
        /\ readable = entry.readable
        /\ unconsumed = Accumulated
        /\ outcome.text = <<>>

\* A call timed out on a readable stream after it had dequeued text.
C4_Witness ==
    /\ pc = "idle"
    /\ outcome.kind = "timeout"
    /\ readable
    /\ Flatten(call_chunks) # <<>>
    /\ unconsumed = Accumulated

\* C5: the timeout is enforced against the deadline fixed at call entry.
\* Every wait on the queue ends no later than timeout ticks after entry,
\* whatever was dequeued before, and the time spent waiting on the queue in
\* one call never exceeds the timeout.
C5_OriginalDeadline ==
    (op.timed /\ pc # "idle") =>
        /\ waited <= op.timeout
        /\ pc = "get" => (get_deadline <= op.timeout /\ elapsed <= op.timeout)

\* A call has dequeued a chunk that did not match, waits again, and has
\* used up its whole timeout waiting.
C5_Witness ==
    /\ pc = "get"
    /\ op.timed
    /\ op.timeout >= 1
    /\ gets >= 1
    /\ waited = op.timeout

\* C6: a call that dequeues the sentinel ends with end-of-stream and marks
\* the stream unreadable; every later call that finds no match in the
\* unconsumed buffer ends with end-of-stream again and reads nothing from
\* the queue.
C6_EndOfStreamAgain ==
    (pc = "idle" /\ ncalls > 0) =>
        /\ gets > Len(call_chunks) => (outcome.kind = "eof" /\ ~readable)
        /\ (~entry.readable /\ outcome.kind # "match") =>
                (outcome.kind = "eof" /\ gets = 0)

(***************************************************************************)
(* Claims about the receiver, checked under SpecReceiver.                  *)
(***************************************************************************)
\* The sentinel is among the items put on a queue.
HasSentinel(q) == \E i \in 1..Len(q) : q[i].eoq

\* A sentinel on a queue is its last item (so there is at most one and
\* nothing follows it).
SentinelLast(q) == \A i \in 1..Len(q) : q[i].eoq => i = Len(q)

\* The texts put on a queue, in order.
RECURSIVE TextsOf(_)
TextsOf(q) ==
    IF q = <<>> THEN <<>>
    ELSE (IF Head(q).eoq THEN <<>> ELSE <<Head(q).text>>) \o TextsOf(Tail(q))

\* C7: after close() has closed the socket, however the close interleaves
\* with the receiver's loop (liveness check, readiness wait, read), the
\* receiver ends having put the end-of-stream sentinel on the matching queue
\* and on the log queue.
C7_CloseEndsWithSentinel ==
    (~sock_open /\ rpc \in {"done", "crashed"}) =>
        (HasSentinel(output_queue) /\ HasSentinel(logs_queue))

\* C8: after a zero-length read the receiver reads no more and puts one
\* sentinel on the matching queue, then one on the log queue; on each queue
\* the sentinel is the last item, after every text chunk.
C8_ZeroReadEndsOnce ==
    /\ SentinelLast(output_queue)
    /\ SentinelLast(logs_queue)
    /\ zero_read =>
        /\ rpc \in {"end_out", "end_log", "done"}
        /\ rpc = "end_out" => (~HasSentinel(output_queue) /\ ~HasSentinel(logs_queue))
        /\ rpc = "end_log" => (HasSentinel(output_queue) /\ ~HasSentinel(logs_queue))
        /\ rpc = "done" => (HasSentinel(output_queue) /\ HasSentinel(logs_queue))

\* The peer closed after a chunk of text: the receiver has ended, and each
\* queue holds the text and then the sentinel.
C8_Witness ==
    /\ zero_read
    /\ rpc = "done"
    /\ Len(output_queue) = 2
    /\ Len(logs_queue) = 2
    /\ ~output_queue[1].eoq
    /\ output_queue[2].eoq

\* C9: fan-out order.  What the receiver has put on the log queue is a
\* prefix of what it has put on the matching queue, one item behind only
\* between the two puts of one item, and the texts put are the filtered and
\* decoded socket chunks in the order they were received.
C9_FanOutOrder ==
    /\ Len(logs_queue) <= Len(output_queue)
    /\ logs_queue = SubSeq(output_queue, 1, Len(logs_queue))
    /\ Len(output_queue) - Len(logs_queue) <= 1
    /\ rpc \notin {"put_log", "end_log"} => logs_queue = output_queue
    /\ LET ts == TextsOf(output_queue)
       IN  /\ Len(ts) <= Len(received)
           /\ Len(received) - Len(ts) <= 1
           /\ \A i \in 1..Len(ts) : ts[i] = Decode(process_raw_data(received[i]).clean)

\* Two chunks with different texts went through: both queues hold the two
\* texts in arrival order.
C9_Witness ==
    /\ Len(received) = 2
    /\ logs_queue = output_queue
    /\ Len(TextsOf(logs_queue)) = 2
    /\ TextsOf(logs_queue)[1] # TextsOf(logs_queue)[2]
    /\ TextsOf(logs_queue)[1] # <<>>

(***************************************************************************)
(* Claims about the negotiation filter, checked under SpecFilter.          *)
(***************************************************************************)
\* The complete negotiations IAC + DO/DONT/WILL/WONT + option of a byte
\* sequence read as a telnet stream, in order, each as <<command, option>>.
RECURSIVE Negotiations(_)
Negotiations(raw) ==
    IF raw = <<>> THEN <<>>
    ELSE IF raw[1] # IAC THEN Negotiations(Tail(raw))
    ELSE IF Len(raw) < 2 THEN <<>>
    ELSE IF raw[2] \notin {DO, DONT, WILL, WONT} THEN Negotiations(SubSeq(raw, 3, Len(raw)))
    ELSE IF Len(raw) < 3 THEN <<>>
    ELSE << <<raw[2], raw[3]>> >> \o Negotiations(SubSeq(raw, 4, Len(raw)))

\* The same stream with the bytes of its complete negotiations removed.
RECURSIVE WithoutNegotiations(_)
WithoutNegotiations(raw) ==
    IF raw = <<>> THEN <<>>
    ELSE IF raw[1] # IAC THEN <<raw[1]>> \o WithoutNegotiations(Tail(raw))
    ELSE IF Len(raw) < 2 THEN raw
    ELSE IF raw[2] \notin {DO, DONT, WILL, WONT}
         THEN <<raw[1], raw[2]>> \o WithoutNegotiations(SubSeq(raw, 3, Len(raw)))
    ELSE IF Len(raw) < 3 THEN raw
    ELSE WithoutNegotiations(SubSeq(raw, 4, Len(raw)))

NotIgnored(b) == b \notin {NULL, 17}

\* C10: on every byte sequence the filter reads to its end, it sends one
\* reply per complete negotiation, in order, declining it with the same
\* option byte (IAC WONT option for DO or DONT, IAC DONT option for WILL or
\* WONT) and nothing else; the clean output is that of the sequence with
\* the negotiation bytes removed, so none of them is emitted: when nothing
\* but negotiations and plain bytes came in, the clean output is the plain
\* bytes other than 0 and 17.
C10_DeclineEveryNegotiation ==
    \A r \in 1..Len(f_fed) :
        ~f_runs[r].error =>
            LET raw == f_fed[r]
                negs == Negotiations(raw)
                rest == WithoutNegotiations(raw)
            IN  /\ Len(f_runs[r].replies) = Len(negs)
                /\ \A n \in 1..Len(negs) :
                    f_runs[r].replies[n] =
                        <<IAC, (IF negs[n][1] \in {DO, DONT} THEN WONT ELSE DONT), negs[n][2]>>
                /\ f_runs[r].clean = process_raw_data(rest).clean
                /\ process_raw_data(rest).replies = <<>>
                /\ (\A i \in 1..Len(rest) : rest[i] # IAC) =>
                        f_runs[r].clean = SelectSeq(rest, NotIgnored)

\* A chunk with plain text around one negotiation went through the filter.
C10_Witness ==
    /\ Len(f_fed) = 1
    /\ ~f_runs[1].error
    /\ Len(Negotiations(f_fed[1])) = 1
    /\ f_fed[1][1] = 65
    /\ f_fed[1][2] = IAC
    /\ f_runs[1].clean = <<65>>
    /\ Len(f_runs[1].replies) = 1

\* A chunk that ends inside a command: after an IAC, or after IAC and one of
\* DO, DONT, WILL, WONT with the option byte missing.
RECURSIVE EndsMidCommandFrom(_, _)
EndsMidCommandFrom(raw, i) ==
    IF i > Len(raw) THEN FALSE
    ELSE IF raw[i] # IAC THEN EndsMidCommandFrom(raw, i + 1)
    ELSE IF i = Len(raw) THEN TRUE
    ELSE IF raw[i + 1] \in {DO, DONT, WILL, WONT}
    THEN IF i + 1 = Len(raw) THEN TRUE ELSE EndsMidCommandFrom(raw, i + 3)
    ELSE EndsMidCommandFrom(raw, i + 2)
EndsMidCommand(raw) == EndsMidCommandFrom(raw, 1)

\* C11: when the peer's bytes arrive in two chunks, neither of which ends inside
\* a command, the texts the receiver enqueues and the replies it sends are
\* those of the filter run once on the two chunks joined: a subnegotiation
\* opened in the first chunk still swallows the bytes of the second.
C11_ChunkBoundaryInvariance ==
    (/\ Len(received) = 2
     /\ ~EndsMidCommand(received[1])
     /\ ~EndsMidCommand(received[2])
     /\ Len(TextsOf(output_queue)) = 2)
    => LET whole == process_raw_data(received[1] \o received[2])
       IN  /\ Flatten(TextsOf(output_queue)) = Decode(whole.clean)
           /\ sock_out = whole.replies

\* C12: a chunk that ends inside a command does not make the filter fail: once
\* the receiver has processed such a chunk it has not died of the filter's
\* error, and it has enqueued one text for each chunk read so far.
C12_MidCommandChunkSurvives ==
    (/\ received # <<>>
     /\ EndsMidCommand(received[Len(received)])
     /\ rpc # "process")
    => /\ rerr # "RuntimeError"
       /\ rpc # "crashed" =>
            Len(TextsOf(output_queue)) + (IF rpc = "put_out" THEN 1 ELSE 0) = Len(received)

\* The clean bytes of a chunk whose commands are all complete when nothing at
\* all is emitted between IAC SB and the next IAC SE: from position i, sub
\* telling whether a subnegotiation is open.
RECURSIVE SwallowingClean(_, _, _)
SwallowingClean(raw, i, sub) ==
    IF i > Len(raw) THEN <<>>
    ELSE IF raw[i] = IAC
    THEN LET cmd == raw[i + 1]
         IN  IF cmd \in {DO, DONT, WILL, WONT} THEN SwallowingClean(raw, i + 3, sub)
             ELSE IF cmd = IAC
             THEN (IF sub THEN <<>> ELSE <<IAC>>) \o SwallowingClean(raw, i + 2, sub)
             ELSE IF cmd = SB THEN SwallowingClean(raw, i + 2, TRUE)
             ELSE IF cmd = SE THEN SwallowingClean(raw, i + 2, FALSE)
             ELSE SwallowingClean(raw, i + 2, sub)
    ELSE (IF sub \/ raw[i] \in {NULL, 17} THEN <<>> ELSE <<raw[i]>>)
         \o SwallowingClean(raw, i + 1, sub)

\* C13: between IAC SB and the next IAC SE the filter emits no byte at all, an
\* escaped IAC IAC pair included; it emits again only after IAC SE.
C13_SubnegotiationSwallowsAll ==
    \A k \in 1..Len(f_fed) :
        ~EndsMidCommand(f_fed[k]) => f_runs[k].clean = SwallowingClean(f_fed[k], 1, FALSE)

NoIAC(raw) == \A i \in 1..Len(raw) : raw[i] # IAC

\* C14: on a chunk holding no IAC the clean output is the chunk with every
\* byte 0 and every byte 17 removed, order kept, and nothing is sent; an
\* IAC IAC pair met outside any subnegotiation puts exactly one byte 255 in
\* the output, at its place.
C14_PassThrough ==
    \A k \in 1..Len(f_fed) :
        LET raw == f_fed[k]
            run == f_runs[k]
        IN  /\ NoIAC(raw) =>
                /\ ~run.error
                /\ run.clean = SelectSeq(raw, NotIgnored)
                /\ run.replies = <<>>
            /\ \A j \in 1..(Len(raw) - 1) :
                  LET before == SubSeq(raw, 1, j - 1)
                      after == SubSeq(raw, j + 2, Len(raw))
                  IN  (raw[j] = IAC /\ raw[j + 1] = IAC /\ NoIAC(before) /\ NoIAC(after))
                      => run.clean = SelectSeq(before, NotIgnored) \o <<IAC>>
                                     \o SelectSeq(after, NotIgnored)

\* A chunk without IAC that holds a plain byte, a byte 17, a byte 0 and a
\* plain byte again has been filtered down to the two plain bytes.
C14_Witness ==
    /\ f_fed = << <<65, 17, NULL, 65>> >>
    /\ f_runs[1].clean = <<65, 65>>

(***************************************************************************)
(* Claims about the connection's life cycle, checked under SpecReceiver.   *)
(***************************************************************************)
\* socket live, queues set, the three workers running
FullyOpen == sock_open /\ queues /\ ReceiverAlive /\ SenderAlive /\ LogsAlive

\* no socket, no queues
FullyClosed == closed /\ ~queues

\* C15: whenever the caller is between two calls the connection is either
\* fully open or fully closed, also after a failed open(), after the peer has
\* closed and after a worker has ended on an error.
C15_FullyOpenOrClosed == c_pc = "idle" => FullyOpen \/ FullyClosed

\* C16: open() on a connection that is open and close() on one that is closed
\* each raise an error and change nothing: socket, threads, queues,
\* unconsumed text and readable flag are as before the call.
C16_GuardedOpenClose ==
    [][/\ (open /\ ~closed) =>
            /\ last_call' = [op |-> "open", error |-> "RuntimeError"]
            /\ UNCHANGED <<mvars, fvars, rvars, c_pc, queues, warnings, svars, lvars, kvars, vvars>>
       /\ (Close /\ closed) =>
            /\ last_call' = [op |-> "close", error |-> "RuntimeError"]
            /\ UNCHANGED <<mvars, fvars, rvars, c_pc, queues, warnings, svars, lvars, kvars, vvars>>]_vars

\* open() has just failed on an open connection whose receiver had already
\* enqueued text.
C16_Witness ==
    /\ last_call = [op |-> "open", error |-> "RuntimeError"]
    /\ sock_open
    /\ queues
    /\ TextsOf(output_queue) # <<>>

Alive(worker) ==
    IF worker = "receiver" THEN ReceiverAlive
    ELSE IF worker = "sender" THEN SenderAlive
    ELSE LogsAlive

\* C17: close() on an open connection always completes.  The socket is closed
\* before the first join; whatever the workers are doing, the next step of
\* close() can be taken (each join is bounded); a warning is logged for a
\* worker exactly when it is still alive after its join; and when close() has
\* returned the connection reports closed and the queues are released,
\* whether or not every worker stopped.
C17_CloseCompletes ==
    /\ [](c_pc # "idle" => closed /\ ENABLED CloseStep)
    /\ []((c_pc = "idle" /\ last_call = [op |-> "close", error |-> "none"])
            => closed /\ ~queues)
    /\ [][\A w \in {"receiver", "sender", "logs"} :
             /\ (w \in warnings' /\ w \notin warnings) => Alive(w)
             /\ (Join("join_" \o w, w, Alive(w), c_pc') /\ Alive(w)) => w \in warnings']_vars

\* close() has returned on a connection whose receiver had stopped and whose
\* log consumer had not: one warning, connection closed, queues released.
C17_Witness ==
    /\ c_pc = "idle"
    /\ last_call = [op |-> "close", error |-> "none"]
    /\ closed
    /\ ~queues
    /\ ~ReceiverAlive
    /\ LogsAlive
    /\ "logs" \in warnings
    /\ "receiver" \notin warnings

(***************************************************************************)
(* Claims about the sender, checked under SpecSender.                      *)
(***************************************************************************)
RECURSIVE EncodeAll(_)
\* the encodings of a list of texts, one after the other
EncodeAll(ts) == IF ts = <<>> THEN <<>> ELSE Encode(Head(ts)) \o EncodeAll(Tail(ts))

IsPrefix(p, d) == Len(p) <= Len(d) /\ SubSeq(d, 1, Len(p)) = p

\* C18: the bytes sent on the socket are the encodings of the texts given to
\* write(), in call order, without a byte sent twice or skipped: what has
\* been sent, followed by the unsent rest of the text being sent and by the
\* texts still queued, is what was written, so a text is sent to its end
\* before the next is taken; and write() can always be taken at once.
C18_SenderInOrder ==
    /\ IsPrefix(wire, EncodeAll(written))
    /\ s_pc # "crashed" =>
          wire \o (IF s_pc = "send" THEN s_data ELSE <<>>) \o EncodeAll(sender_queue)
            = EncodeAll(written)
    /\ (c_pc = "idle" /\ nwrites < MaxWrites) => ENABLED write

\* A partial send: of the two bytes of the first text one is sent and one is
\* left, while the next text waits on the queue.
C18_Witness ==
    /\ s_pc = "send"
    /\ wire = <<195>>
    /\ s_data = <<169>>
    /\ written = << <<233>>, <<97, 13>> >>
    /\ sender_queue = << <<97, 13>> >>

(***************************************************************************)
(* Claims about the log consumer, checked under SpecLogs.                  *)
(***************************************************************************)
\* the texts the log consumer has taken from its queue so far, joined
Consumed == Flatten(TextsOf(SubSeq(logs_queue, 1, l_read)))

NoEscape(t) == \A i \in 1..Len(t) : t[i] # ESC

\* the complete, newline-terminated lines of a text, trimmed
CompleteLines(t) ==
    LET pieces == Split(t, newline)
    IN  StripAll(SubSeq(pieces, 1, Len(pieces) - 1))

\* what follows the last newline of a text
Fragment(t) == LET pieces == Split(t, newline) IN pieces[Len(pieces)]

\* C19: escape sequences aside, what the log consumer has logged before the
\* end of the stream does not depend on how the text was cut into chunks: it
\* is the complete lines of the joined text, trimmed, in order, once each,
\* and the remainder it holds is the fragment after the last newline.
C19_LinesWhateverTheChunks ==
    (l_pc = "get" /\ NoEscape(Consumed))
    => /\ logged = CompleteLines(Consumed)
       /\ remainder = Fragment(Consumed)

\* The text "a" "\n" "a\nb" was taken in three chunks: two lines "a" are
\* logged, the first of them cut from its newline by a chunk boundary, and
\* "b" is held.
C19_Witness ==
    /\ l_pc = "get"
    /\ l_read = 3
    /\ TextsOf(logs_queue) = << <<97>>, <<10>>, <<97, 10, 98>> >>
    /\ logged = << <<97>>, <<97>> >>
    /\ remainder = <<98>>

\* C20: on the sentinel the log consumer logs the final remainder only if
\* there is one, so it produces no record when the remainder is empty, and
\* it ends having read nothing past the sentinel.
C20_FinalRemainderOnlyIfAny ==
    (l_pc = "done" /\ NoEscape(Consumed))
    => /\ logs_queue[l_read].eoq
       /\ logged = CompleteLines(Consumed)
                    \o (IF remainder = <<>> THEN <<>> ELSE <<Strip(remainder)>>)

(***************************************************************************)
(* IOSXRConsole: what the trace of a method shows.                         *)
(***************************************************************************)
\* t ends with suffix
EndsWith(t, suffix) ==
    /\ Len(suffix) <= Len(t)
    /\ SubSeq(t, Len(t) - Len(suffix) + 1, Len(t)) = suffix

\* the entries of the trace that are writes / reads that returned
IsWrite(i, t) == k_trace[i].ev = "write" /\ k_trace[i].text = t
ReadBefore(i, suffix) ==
    \E j \in 1..(i - 1) : k_trace[j].ev = "read" /\ EndsWith(k_trace[j].text, suffix)

\* the last entry of the trace is a read that returned the prompt of hostname
PromptReadLast ==
    /\ k_trace # <<>>
    /\ hostname # <<>>
    /\ k_trace[Len(k_trace)].ev = "read"
    /\ EndsWith(k_trace[Len(k_trace)].text, cli_prefix \o <<58>> \o hostname[1] \o <<35>>)

Finished(method, error) == k_pc = "idle" /\ k_call = [method |-> method, error |-> error]

\* C21: the writes of connect() are the empty line, the username and the
\* password, each followed by a carriage return, in this order and each at
\* most once; the username is written only after "Username:" was read and
\* the password only after "Password:" was read after that; when connect()
\* returns the session is connected, its hostname is the one of the prompt
\* read last, and a connect() that read "Username:" has made all three writes.
C21_LoginHandshake ==
    k_call.method = "connect" =>
        /\ IsPrefix(TextsWritten(k_trace), <<CR, username \o CR, password \o CR>>)
        /\ \A i \in 1..Len(k_trace) :
              /\ IsWrite(i, username \o CR) => ReadBefore(i, username_prompt.text)
              /\ IsWrite(i, password \o CR) =>
                    /\ k_trace[i - 1].ev = "read"
                    /\ EndsWith(k_trace[i - 1].text, password_prompt)
                    /\ \E j \in 1..(i - 2) : IsWrite(j, username \o CR)
        /\ Finished("connect", "none") =>
              /\ connected
              /\ PromptReadLast
              /\ Len(TextsWritten(k_trace)) \in {1, 3}

C21_Witness ==
    /\ Finished("connect", "none")
    /\ TextsWritten(k_trace) = <<CR, username \o CR, password \o CR>>
    /\ connected
    /\ hostname = <<<<114, 49>>>>

\* C22: a connect() whose first expect matched the prompt and not
\* "Username:" returns with the session connected, the hostname being the
\* text between "prefix:" and "#" of what was read, after writing the empty
\* line only.
C22_AlreadyLoggedIn ==
    (/\ k_call.method = "connect"
     /\ Len(k_trace) >= 3
     /\ k_trace[3].ev = "read"
     /\ Find(k_trace[3].text, username_prompt.text, 0) = -1)
    => /\ Finished("connect", "none")
       /\ connected
       /\ PromptReadLast
       /\ Len(k_trace) = 3
       /\ TextsWritten(k_trace) = <<CR>>

C22_Witness ==
    /\ Finished("connect", "none")
    /\ TextsWritten(k_trace) = <<CR>>
    /\ connected
    /\ hostname = <<<<114, 49>>>>
    /\ k_entry.connected = FALSE

\* the last entry of the trace
Last == k_trace[Len(k_trace)]

\* C23: when, after the credentials were sent, the second expect of connect()
\* reads the authentication failure marker, connect() raises the
\* authentication error: the session is not connected, no hostname is known,
\* and the username and the password were written once each.
C23_AuthenticationFailure ==
    /\ (/\ k_call.method = "connect"
        /\ Len(TextsWritten(k_trace)) = 3
        /\ Last.ev = "read"
        /\ Find(Last.text, auth_failed.text, 0) # -1)
       => Finished("connect", "AuthenticationFailed")
    /\ k_call = [method |-> "connect", error |-> "AuthenticationFailed"]
       => /\ k_pc = "idle"
          /\ ~connected
          /\ hostname = <<>>
          /\ TextsWritten(k_trace) = <<CR, username \o CR, password \o CR>>
          /\ Last.ev = "read"
          /\ EndsWith(Last.text, auth_failed.text)

C23_Witness ==
    /\ Finished("connect", "AuthenticationFailed")
    /\ ~connected

\* a step that raises RuntimeError at once: nothing read, nothing written,
\* the connected flag and the hostname as they were
RaisesAtOnce ==
    /\ k_pc' = "idle"
    /\ k_call'.error = "RuntimeError"
    /\ k_trace' = <<>>
    /\ UNCHANGED <<connected, hostname>>
    /\ UNCHANGED <<unconsumed, receiver_queue, readable, sender_queue, written>>

\* C24: connect() on a connected session, and disconnect() and
\* generate_rsa_key() on a session that is not connected, raise before
\* anything is read or written and leave the connected flag and the hostname
\* as they were.
C24_GuardsRaiseFirst ==
    [][/\ (connect /\ connected) => RaisesAtOnce
       /\ (disconnect /\ ~connected) => RaisesAtOnce
       /\ (generate_rsa_key /\ ~connected) => RaisesAtOnce]_vars

C24_Witness ==
    /\ Finished("connect", "RuntimeError")
    /\ connected
    /\ hostname = k_entry.hostname
    /\ k_trace = <<>>

\* C25: every wait_write with nothing to wait for is followed at once by its
\* write, with no read; every wait_write with a text to wait for is followed
\* by the read of that text and only then by its write, or by the failure of
\* the read, after which nothing is written and the method has ended with
\* the error; the write of wait_write(text, ...) is one write of text
\* followed by one carriage return, and nothing is written except that.
C25_WaitThenWrite ==
    \A i \in 1..Len(k_trace) :
        /\ (k_trace[i].ev = "wait_write" /\ k_trace[i].wait = <<>>)
           => /\ i < Len(k_trace)
              /\ k_trace[i + 1] = WriteEvent(k_trace[i].text \o CR)
        /\ (k_trace[i].ev = "wait_write" /\ k_trace[i].wait # <<>>)
           => IF i = Len(k_trace) THEN k_pc = "wait_write"
              ELSE \/ /\ k_trace[i + 1].ev = "read"
                      /\ EndsWith(k_trace[i + 1].text, k_trace[i].wait[1])
                      /\ i + 1 < Len(k_trace)
                      /\ k_trace[i + 2] = WriteEvent(k_trace[i].text \o CR)
                   \/ /\ k_trace[i + 1].ev \in {"timeout", "eof"}
                      /\ i + 1 = Len(k_trace)
                      /\ k_pc = "idle"
                      /\ k_call.error \in {"TimeoutError", "EOFError"}
        /\ k_trace[i].ev = "write"
           => \/ /\ i > 1
                 /\ k_trace[i - 1].ev = "wait_write"
                 /\ k_trace[i - 1].wait = <<>>
              \/ /\ i > 2
                 /\ k_trace[i - 1].ev = "read"
                 /\ k_trace[i - 2].ev = "wait_write"
                 /\ k_trace[i - 2].wait # <<>>

C25_Witness ==
    /\ Finished("wait_write", "none")
    /\ Len(k_trace) = 3
    /\ k_trace[1] = WaitWriteEvent(<<120>>, <<password_prompt>>)
    /\ k_trace[2].ev = "read"
    /\ k_trace[3] = WriteEvent(<<120, 13>>)

\* the text returned by the n-th read of the trace that returned, or <<>>
RECURSIVE ReadText(_, _)
ReadText(evs, n) ==
    IF evs = <<>> THEN <<>>
    ELSE IF Head(evs).ev # "read" THEN ReadText(Tail(evs), n)
    ELSE IF n = 1 THEN Head(evs).text
    ELSE ReadText(Tail(evs), n - 1)

Holds(t, marker) == Find(t, marker, 0) # -1

\* what generate_rsa_key writes before its expect
RsaCommands == <<CR, terminal_length \o CR, crypto_key \o CR>>

\* C26: a generate_rsa_key() that returns has answered what its expect read:
\* "2048" once and never "no" to "How many bits in the modulus", "no" once and
\* never "2048" to "Do you really want to replace them", nothing to the
\* prompt alone; a call that has not returned has written no answer; the
\* connected flag and the hostname stay as they were at the call.
C26_AnswerByOutcome ==
    k_call.method = "generate_rsa_key" =>
        /\ connected = k_entry.connected
        /\ hostname = k_entry.hostname
        /\ IF Finished("generate_rsa_key", "none")
           THEN LET t == ReadText(k_trace, 3)
                IN  TextsWritten(k_trace) = RsaCommands \o
                        (IF Holds(t, new_key.text) THEN <<bits \o CR>>
                         ELSE IF Holds(t, key_exists.text) THEN <<no \o CR>>
                         ELSE <<>>)
           ELSE IsPrefix(TextsWritten(k_trace), RsaCommands)

C26_Witness ==
    /\ Finished("generate_rsa_key", "none")
    /\ TextsWritten(k_trace) = RsaCommands \o <<no \o CR>>
    /\ Holds(ReadText(k_trace, 3), key_exists.text)
    /\ connected

\* C27: generate_rsa_key() writes "terminal length 0" only right after a
\* read that returned the prompt, and "crypto key generate rsa" only right
\* after a further read that returned the prompt, in this order and each at
\* most once; a gating read that times out is the end of the call: the
\* command it gates and those after it are not written.
C27_CommandsGatedByPrompt ==
    k_call.method = "generate_rsa_key" =>
        /\ LET w == TextsWritten(k_trace)
           IN  IsPrefix(IF Len(w) > 3 THEN SubSeq(w, 1, 3) ELSE w, RsaCommands)
        /\ \A i \in 1..Len(k_trace) :
              /\ IsWrite(i, terminal_length \o CR)
                 => /\ k_trace[i - 1].ev = "read"
                    /\ EndsWith(k_trace[i - 1].text, cli_prompt)
              /\ IsWrite(i, crypto_key \o CR)
                 => /\ k_trace[i - 1].ev = "read"
                    /\ EndsWith(k_trace[i - 1].text, cli_prompt)
                    /\ \E j \in 1..(i - 2) : IsWrite(j, terminal_length \o CR)
              /\ k_trace[i].ev = "timeout"
                 => /\ i = Len(k_trace)
                    /\ Finished("generate_rsa_key", "TimeoutError")

C27_Witness ==
    /\ k_call.method = "generate_rsa_key"
    /\ k_pc = "rsa_expect"
    /\ TextsWritten(k_trace) = RsaCommands
    /\ Len(k_trace) = 8

\* the prompt of the hostname known when the running method was called
EntryPrompt == cli_prefix \o <<58>> \o k_entry.hostname[1] \o <<35>>

\* C28: a disconnect() that has written "exit" and then reads the prompt
\* again raises the disconnection error and leaves the session connected
\* with its hostname; when that read times out instead, disconnect() returns
\* with the hostname cleared and the session disconnected.
C28_DisconnectByGraceTimeout ==
    (k_call.method = "disconnect" /\ TextsWritten(k_trace) = <<exit_command \o CR>>
     /\ Last.ev # "write")
    => /\ k_pc = "idle"
       /\ Last.ev = "read"
          => /\ EndsWith(Last.text, EntryPrompt)
             /\ k_call.error = "DisconnectionFailed"
             /\ connected
             /\ hostname = k_entry.hostname
       /\ Last.ev = "timeout"
          => /\ k_call.error = "none"
             /\ ~connected
             /\ hostname = <<>>
       /\ k_call.error = "DisconnectionFailed" => Last.ev = "read"
       /\ k_call.error = "none" => Last.ev = "timeout"

C28_Witness ==
    /\ Finished("disconnect", "DisconnectionFailed")
    /\ TextsWritten(k_trace) = <<exit_command \o CR>>
    /\ connected
    /\ hostname = <<<<114, 49>>>>

\* no text is written twice by the running (or last) method
NothingResent ==
    LET w == TextsWritten(k_trace)
    IN  \A i, j \in 1..Len(w) : w[i] = w[j] => i = j

\* C29: a read of connect() or generate_rsa_key() that fails with a timeout
\* or at the end of the stream is the last thing the method does: the method
\* ends with that very error, TimeoutError or EOFError, nothing is written
\* after it or written twice, and the connected flag and the hostname are
\* the ones at the call.
C29_ReadErrorsPropagate ==
    k_call.method \in {"connect", "generate_rsa_key"} =>
        /\ \A i \in 1..Len(k_trace) :
              k_trace[i].ev \in {"timeout", "eof"}
              => /\ i = Len(k_trace)
                 /\ k_pc = "idle"
                 /\ k_call.error = (IF k_trace[i].ev = "timeout" THEN "TimeoutError" ELSE "EOFError")
                 /\ connected = k_entry.connected
                 /\ hostname = k_entry.hostname
                 /\ NothingResent
        /\ k_call.error \in {"TimeoutError", "EOFError"} => Last.ev \in {"timeout", "eof"}

C29_Witness ==
    /\ Finished("connect", "EOFError")
    /\ TextsWritten(k_trace) = <<CR, username \o CR>>
    /\ Last.ev = "eof"
    /\ ~connected

(***************************************************************************)
(* VirtualRouter: the sequence of start and stop.                          *)
(***************************************************************************)
\* the entries of a trace that are among the steps named
RECURSIVE Only(_, _)
Only(trace, names) ==
    IF trace = <<>> THEN <<>>
    ELSE (IF Head(trace) \in names THEN <<Head(trace)>> ELSE <<>>) \o Only(Tail(trace), names)

\* the steps of start() and of stop() the sequence is about
StartSequence == <<"setup_host", "pre_start", "_start", "post_start">>
StopSequence == <<"pre_stop", "_stop", "post_stop">>

\* a step that ends the call with RuntimeError without running anything
FailsAtOnce ==
    /\ v_pc' = "idle"
    /\ v_call'.error = "RuntimeError"
    /\ v_trace' = <<>>
    /\ UNCHANGED <<boot_process, ports_started>>

\* C30: start() runs the host setup, pre_start, the start of the VM and
\* post_start in this order, each once, and has run all four when it
\* returns; stop() runs pre_stop, the stop of the VM and post_stop in this
\* order, each once, and has run all three when it returns; start() on a
\* started VM and stop() on a VM that is not started raise without running
\* any of them.
C30_FixedSequence ==
    /\ [](v_call.method = "start" =>
            /\ IsPrefix(Only(v_trace, {"setup_host", "pre_start", "_start", "post_start"}), StartSequence)
            /\ Only(v_trace, {"pre_stop", "_stop", "post_stop"}) = <<>>
            /\ (v_pc = "idle" /\ v_call.error = "none")
               => Only(v_trace, {"setup_host", "pre_start", "_start", "post_start"}) = StartSequence)
    /\ [](v_call.method = "stop" =>
            /\ IsPrefix(v_trace, StopSequence)
            /\ (v_pc = "idle" /\ v_call.error = "none") => v_trace = StopSequence)
    /\ [](v_call.error = "RuntimeError" => v_trace = <<>> /\ v_pc = "idle")
    /\ [][/\ (start /\ started) => FailsAtOnce
          /\ (stop /\ ~started) => FailsAtOnce]_vars

C30_Witness ==
    /\ v_pc = "idle"
    /\ v_call = [method |-> "stop", error |-> "none"]
    /\ v_trace = <<"pre_stop", "_stop", "post_stop">>
    /\ ~boot_process
    /\ nvm = 2

\* C34: whatever methods of the console were called, and however they
\* ended, the session is connected exactly when its hostname is known.
C34_ConnectedIffHostname == connected <=> hostname # <<>>

C34_Witness ==
    /\ ncons = 2
    /\ Finished("generate_rsa_key", "TimeoutError")
    /\ k_trace # <<>>
    /\ connected
    /\ hostname # <<>>

\* C35: in disconnect() a timeout of the read that gates "exit" is raised
\* with "exit" not written, an end of stream at that read or at the read
\* after "exit" is raised too, and in all these cases the session stays
\* connected with its hostname; disconnect() returns only after the read
\* that follows "exit" timed out.
C35_OnlyGraceTimeoutSucceeds ==
    k_call.method = "disconnect" =>
        /\ \A i \in 1..Len(k_trace) :
              /\ (k_trace[i].ev = "timeout" /\ TextsWritten(k_trace) = <<>>)
                 => /\ Finished("disconnect", "TimeoutError")
                    /\ i = Len(k_trace)
              /\ k_trace[i].ev = "eof"
                 => /\ Finished("disconnect", "EOFError")
                    /\ i = Len(k_trace)
        /\ k_call.error \in {"TimeoutError", "EOFError"}
           => /\ connected
              /\ hostname = k_entry.hostname
              /\ hostname # <<>>
        /\ k_call.error = "TimeoutError" => TextsWritten(k_trace) = <<>>
        /\ Finished("disconnect", "none")
           => /\ TextsWritten(k_trace) = <<exit_command \o CR>>
              /\ Last.ev = "timeout"
              /\ k_trace[Len(k_trace) - 1].ev = "write"

C35_Witness ==
    /\ Finished("disconnect", "EOFError")
    /\ TextsWritten(k_trace) = <<exit_command \o CR>>
    /\ Last.ev = "eof"
    /\ connected

(***************************************************************************)
(* TelnetClient: the unconsumed buffer.                                    *)
(***************************************************************************)
\* the search a call makes on the buffer it found at its entry
EntryMatch == Match(op, entry.unconsumed, 0)

\* C36: a call of read_until or expect that finds a match in the unconsumed
\* buffer returns it, through the end of the match, without taking an item
\* from the queue and without waiting, whether or not the stream is still
\* readable and whatever its timeout, zero included.
C36_BufferExaminedFirst ==
    (ncalls > 0 /\ EntryMatch.found)
    => /\ pc = "idle"
       /\ outcome.kind = "match"
       /\ outcome.text = Upto(entry.unconsumed, EntryMatch.end)
       /\ unconsumed = Unread(entry.unconsumed, EntryMatch.end)
       /\ gets = 0
       /\ call_chunks = <<>>
       /\ readable = entry.readable

C36_Witness ==
    /\ ncalls > 0
    /\ EntryMatch.found
    /\ ~entry.readable
    /\ op.timed
    /\ op.timeout = 0
    /\ outcome.kind = "match"
    /\ outcome.text # <<>>

\* C38: read_all() returns the unconsumed buffer followed by the text chunks
\* it took from the queue, which are all those before the sentinel, in order
\* and each once: with what the earlier calls returned, this is everything
\* the receiver has put.  Afterwards the buffer is empty and the stream is
\* unreadable, and a read_all() on an unreadable stream returns its buffer
\* (empty after a read_all()) without taking anything from the queue.
C38_ReadAll ==
    (pc = "idle" /\ op.kind = "read_all")
    => /\ outcome.kind = "all"
       /\ outcome.text = entry.unconsumed \o Flatten(call_chunks)
       /\ unconsumed = <<>>
       /\ ~readable
       /\ returned_all = enqueued_all
       /\ IF entry.readable
          THEN gets = Len(call_chunks) + 1 /\ eoq_put /\ receiver_queue = <<>>
          ELSE gets = 0 /\ call_chunks = <<>>

C38_Witness ==
    /\ pc = "idle"
    /\ op.kind = "read_all"
    /\ outcome.kind = "all"
    /\ entry.readable
    /\ entry.unconsumed # <<>>
    /\ Len(call_chunks) >= 1
    /\ Flatten(call_chunks) # <<>>

\* C37: after an open() that succeeded, the unconsumed buffer is empty and
\* the stream is readable.
C37_ReopenStartsClean ==
    [][(open /\ last_call'.error = "none") => (unconsumed' = <<>> /\ readable')]_vars

(***************************************************************************)
(* TelnetClient: the end of the three threads.                             *)
(***************************************************************************)
AllEnded == ~ReceiverAlive /\ ~SenderAlive /\ ~LogsAlive

\* C32: once the connection was closed, by close() or by the peer, the
\* receiver, the sender and the log consumer all eventually end.
C32_WorkersTerminate == (closed \/ peer_closed) ~> AllEnded

(***************************************************************************)
(* VirtualRouter: the connection getters.                                  *)
(***************************************************************************)
Refused == "ConnectionRefusedError"

\* C33: a connection getter makes at most 5 open attempts; every attempt
\* that was followed by another one was refused, so the connection of the
\* first attempt that succeeds is returned with no further attempt and any
\* other error ends the getter; it returns exactly when its last attempt
\* succeeded, and ends with RuntimeError exactly after the 5th refusal;
\* get_serial_console_connection with an index not below the number of
\* serial consoles ends with ValueError without any attempt.
C33_BoundedRetry ==
    LET tries == g_call.tries
        n == Len(tries)
        ended == g_pc = "idle" /\ g_call.method # "none"
    IN  /\ n <= 5
        /\ \A i \in 1..(n - 1) : tries[i] = Refused
        /\ g_pc = "try" => (n < 5 /\ g_call.error = "running")
        /\ ended => /\ g_call.error = "none" <=> (n > 0 /\ tries[n] = "open")
                    /\ g_call.error = "RuntimeError" <=> (n = 5 /\ tries[n] = Refused)
                    /\ g_call.error = "ValueError" <=>
                         (g_call.method = "get_serial_console_connection"
                          /\ g_call.index >= SERIAL_CONSOLE_COUNT)
                    /\ g_call.error = "ValueError" => n = 0

\* A getter was refused twice, slept a second each time, and returned the
\* connection of its third attempt.
C33_Witness ==
    /\ g_pc = "idle"
    /\ g_call.method = "get_qemu_monitor_connection"
    /\ g_call.tries = <<Refused, Refused, "open">>
    /\ g_call.error = "none"
    /\ x_clock >= 2

(***************************************************************************)
(* XRV: post_start.                                                        *)
(***************************************************************************)
\* the last step of the running (or last) call is post_start: the waits
\* kept are its waits
InPostStart == v_trace # <<>> /\ v_trace[Len(v_trace)] = "post_start"

\* start() has ended with an error that a wait of post_start on the console
\* raised
PostStartFailed ==
    /\ v_pc = "idle"
    /\ v_call.method = "start"
    /\ v_call.error \in {"TimeoutError", "EOFError", "RuntimeError"}
    /\ InPostStart
    /\ x_trace # <<>>

\* C31: when a wait of post_start on the console raised (timeout, end of
\* stream, unexpected stage), the VM has been stopped and cleaned up by the
\* time start() ends with the error: the boot process and the port
\* forwardings are stopped and the console connection is closed.
C31_CleanupOnFailure ==
    PostStartFailed => (~boot_process /\ ~ports_started /\ xr_console = "none")

\* the deadline of the running (or last) post_start
Deadline == start_time + CONFIG_TIMEOUT

\* start() has returned, post_start being its last step
PostStartReturned ==
    /\ v_pc = "idle"
    /\ v_call = [method |-> "start", error |-> "none"]

C39_NicsOnDeclaredBridges ==
    \A k \in 1..Len(nic_devices) :
        LET nic == nic_devices[k]
        IN  /\ nic.pci_bus = (nic.index \div 26) + 1
            /\ nic.pci_bus <= Len(pci_bridges)
            /\ \E b \in 1..Len(pci_bridges) : pci_bridges[b] = nic.bus
            /\ nic.pci_addr \in 1..26
            /\ \A j \in 1..Len(nic_devices) :
                  (nic_devices[j].bus = nic.bus /\ nic_devices[j].addr = nic.addr) => j = k

====
